---- MODULE Spec2Model ----
(***************************************************************************)
(* Verification model of the rrtrace visualizer (White-Green/rrtrace).     *)
(*                                                                         *)
(* One module, several specifications, one per subsystem:                  *)
(*   SpecRing   the SPSC shared-memory ring (src/src/ringbuffer.rs) with   *)
(*              the reader's read call interleaved, access by access,      *)
(*              with a producer that follows the ring protocol;            *)
(*   SpecPipe   the threads of src/src/main.rs: ring -> event_queue ->      *)
(*              trace thread -> rayon tasks -> result_queue;               *)
(*   SpecTS     a TraceState (src/src/trace_state.rs) fed events one by    *)
(*              one, with sync calls in between;                           *)
(*   SpecBatch  one event stream, cut into batches, given to FastTrace,    *)
(*              SlowTrace::trace and a TraceState side by side;            *)
(*   SpecVec    a GpuSyncVec (src/src/renderer/trace_state/gpu_sync_vec.rs)*)
(*              under its operations, with the GPU buffers' contents;      *)
(*   SpecUi     the UI thread's about_to_wait step (src/src/main.rs,       *)
(*              src/src/renderer.rs) against the result queue;             *)
(*   SpecEnc    encode_time (src/src/trace_state.rs) called on times at    *)
(*              the edges of its masks and shifts;                         *)
(*   SpecFree   a FreeList (src/src/renderer/vertex_arena.rs) under alloc  *)
(*              and dealloc.                                               *)
(* Each specification uses its own group of variables; the variables of    *)
(* the other groups are parked at 0 and never change.                      *)
(*                                                                         *)
(* Numbers.  TLC's integers are 32-bit, so values of the program that do   *)
(* not fit (u64 timestamps, VISIBLE_DURATION = 30e9, u64::MAX) are held as *)
(* four 16-bit limbs, most significant first, and the arithmetic on them   *)
(* is limb arithmetic; indices and lengths are plain integers.             *)
(***************************************************************************)
EXTENDS Integers, Sequences, FiniteSets, TLC

VARIABLES
    ring,   \* RRProfEventRingBuffer: the shared region
    rd,     \* the frame of the reader's current read call
    prod,   \* the producer's position in its write protocol
    rlog,   \* history: what the read calls returned, each call's entry state, producer activity
    event_queue,      \* main: SegQueue<Vec<RRProfTraceEvent>>
    result_queue,     \* main: SegQueue<SlowTrace>
    LATEST_END_TIME,  \* trace_thread: static AtomicU64
    trace,            \* the trace thread: its locals and where it stands
    workers,          \* the tasks given to rayon_core::spawn, by batch
    pipe,             \* history of the pipeline, and whether the process aborted
    trace_state,      \* a TraceState
    tslog,            \* history: the last step on trace_state and the state before it
    stream,           \* an event stream cut into batches: the batch being built
    fast,             \* FastTrace over the stream: before and after the last event
    slow,             \* the replay loop of SlowTrace::trace over the current batch
    vec,              \* a GpuSyncVec<CallBox>, its GPU buffers included
    veclog,           \* history: the last call on vec and what it did
    ui,               \* the UI thread: the renderer's queue, the window, the last step
    enclog,           \* encode_time: the last two times encoded and their encodings
    free_list,        \* a FreeList: by_start and by_size
    fllog             \* history: the last call on free_list and the list before it

RingVars == <<ring, rd, prod, rlog>>
PipeVars == <<event_queue, result_queue, LATEST_END_TIME, trace, workers, pipe>>
TraceStateVars == <<trace_state, tslog>>
BatchVars == <<stream, fast, slow>>
VecVars == <<vec, veclog>>
UiVars == <<ui>>
EncVars == <<enclog>>
FreeVars == <<free_list, fllog>>
vars == <<ring, rd, prod, rlog,
          event_queue, result_queue, LATEST_END_TIME, trace, workers, pipe,
          trace_state, tslog, stream, fast, slow, vec, veclog, ui, enclog, free_list, fllog>>

PipeOff ==
    /\ event_queue = 0 /\ result_queue = 0 /\ LATEST_END_TIME = 0
    /\ trace = 0 /\ workers = 0 /\ pipe = 0
TraceStateOff == trace_state = 0 /\ tslog = 0
BatchOff == stream = 0 /\ fast = 0 /\ slow = 0
VecOff == vec = 0 /\ veclog = 0
UiOff == ui = 0
EncOff == enclog = 0
FreeOff == free_list = 0 /\ fllog = 0

\* The variables the ring specification leaves parked.
NonRingVars == <<PipeVars, TraceStateVars, BatchVars, VecVars, UiVars, EncVars, FreeVars>>
NonRingOff == PipeOff /\ TraceStateOff /\ BatchOff /\ VecOff /\ UiOff /\ EncOff /\ FreeOff

\* The variables the pipeline specification leaves parked.
NonPipeVars == <<TraceStateVars, BatchVars, VecVars, UiVars, EncVars, FreeVars>>
NonPipeOff == TraceStateOff /\ BatchOff /\ VecOff /\ UiOff /\ EncOff /\ FreeOff

RingOff == ring = 0 /\ rd = 0 /\ prod = 0 /\ rlog = 0

(***************************************************************************)
(* Generic helpers                                                         *)
(***************************************************************************)
Min(a, b) == IF a <= b THEN a ELSE b
Max(a, b) == IF a >= b THEN a ELSE b

\* Stands for usize::MAX: above every index and length the model reaches.
USIZE_MAX == 2147483647

(***************************************************************************)
(* u64 values as four 16-bit limbs, most significant first                 *)
(***************************************************************************)
Limb == 65536

\* The u64 with value n, for n below 2^31.
U64(n) == <<0, 0, n \div Limb, n % Limb>>

\* a + b on u64 (wrapping; no sum of the model reaches 2^64).
U64Add(a, b) ==
    LET s4 == a[4] + b[4]
        s3 == a[3] + b[3] + (s4 \div Limb)
        s2 == a[2] + b[2] + (s3 \div Limb)
        s1 == a[1] + b[1] + (s2 \div Limb)
    IN  <<s1 % Limb, s2 % Limb, s3 % Limb, s4 % Limb>>

\* a * k on u64, for a small factor k.
U64MulSmall(a, k) ==
    LET p4 == a[4] * k
        p3 == a[3] * k + (p4 \div Limb)
        p2 == a[2] * k + (p3 \div Limb)
        p1 == a[1] * k + (p2 \div Limb)
    IN  <<p1 % Limb, p2 % Limb, p3 % Limb, p4 % Limb>>

\* a < b and a <= b on u64.
U64Lt(a, b) ==
    \E i \in 1..4 : a[i] < b[i] /\ \A j \in 1..(i - 1) : a[j] = b[j]
U64Le(a, b) == a = b \/ U64Lt(a, b)

U64_MAX == <<Limb - 1, Limb - 1, Limb - 1, Limb - 1>>

\* Stands for u32::MAX where it is used as an index: above every index.
U32_MAX == 2147483647

\* pub const VISIBLE_DURATION: u64 = 1_000_000_000 * 30;
VISIBLE_DURATION == U64MulSmall(U64(1000000000), 30)

\* Mutant: the low word is not masked to 31 bits.
M_EncodeTimeNoMask(time) ==
    LET x == (time[3] \div 32768) + 2 * time[2]
        y == (x \div Limb) + 2 * time[1]
    IN  << <<time[3], time[4]>>, <<y % Limb, x % Limb>> >>

\* encode_time: [time & 0x7fffffff, (time >> 31) & 0xffffffff], each u32 as
\* two 16-bit limbs <<high, low>>.
encode_time(time) ==
    LET x == (time[3] \div 32768) + 2 * time[2]
        y == (x \div Limb) + 2 * time[1]
    IN  << <<time[3] % 32768, time[4]>>, <<y % Limb, x % Limb>> >>

\* What the shader reconstructs from an encoded time: (hi << 31) | lo, as a u64.
decode_time(enc) ==
    LET lo == enc[1]
        hi == enc[2]
    IN  << hi[1] \div 2,
           (hi[1] % 2) * 32768 + (hi[2] \div 2),
           IF lo[1] >= 32768 THEN lo[1] ELSE (hi[2] % 2) * 32768 + lo[1],
           lo[2] >>

(***************************************************************************)
(* Trace events, decoded: kind, 60-bit timestamp, payload                  *)
(***************************************************************************)
Event(type, timestamp, data) == [type |-> type, timestamp |-> timestamp, data |-> data]

\* x as u32.  Every payload of the model is below 2^31, where the cast keeps
\* the value.
AsU32(x) == x

\* events.last().unwrap()
Last(events) == events[Len(events)]

\* s without its last element (Vec::pop).
Front(s) == SubSeq(s, 1, Len(s) - 1)

\* Vec::insert(index, x) and Vec::remove(index), index counted from 0.
InsertAt(s, index, x) == SubSeq(s, 1, index) \o <<x>> \o SubSeq(s, index + 1, Len(s))
RemoveAt(s, index) == SubSeq(s, 1, index) \o SubSeq(s, index + 2, Len(s))

\* binary_search_by_key(&thread_id, |entry| entry.tid) on a list sorted by tid
\* with no tid twice: Ok(index) of the entry, or Err(index) where to insert.
BinarySearch(s, thread_id) ==
    [ found |-> \E i \in 1..Len(s) : s[i].tid = thread_id,
      index |-> Cardinality({ i \in 1..Len(s) : s[i].tid < thread_id }) ]

(***************************************************************************)
(* FastTrace                           src/src/trace_state.rs              *)
(***************************************************************************)
FastTraceNew ==
    [ thread_stacks |-> << [tid |-> 0, stack |-> << >>] >>,
      current_thread |-> 0,
      in_gc |-> FALSE ]

\* while stack.pop().is_some_and(|m| m != method_id) {}
RECURSIVE PopUntil(_, _)
PopUntil(stack, method_id) ==
    IF stack = << >> THEN << >>
    ELSE IF Last(stack) # method_id THEN PopUntil(Front(stack), method_id)
    ELSE Front(stack)

\* One round of the loop of FastTrace::process_events.  panicked: the index
\* thread_stacks[current_thread] is out of bounds.
FastEvent(ft, e) ==
    LET ok(v) == [panicked |-> FALSE, ft |-> v]
        panic == [panicked |-> TRUE, ft |-> ft]
        cur == ft.current_thread + 1
    IN
    CASE e.type = "Call" ->
            IF ft.current_thread < Len(ft.thread_stacks)
            THEN ok([ft EXCEPT !.thread_stacks[cur].stack = Append(@, e.data)])
            ELSE panic
      [] e.type = "Return" ->
            IF ft.current_thread < Len(ft.thread_stacks)
            THEN ok([ft EXCEPT !.thread_stacks[cur].stack = PopUntil(@, e.data)])
            ELSE panic
      [] e.type = "ThreadSuspended" ->
            ok([ft EXCEPT !.current_thread = U32_MAX])
      [] e.type = "ThreadResume" ->
            LET thread_id == AsU32(e.data)
                r == BinarySearch(ft.thread_stacks, thread_id)
            IN  ok([ft EXCEPT
                      !.thread_stacks =
                          IF r.found THEN @
                          ELSE InsertAt(@, r.index, [tid |-> thread_id, stack |-> << >>]),
                      !.current_thread = r.index])
      [] e.type = "ThreadExit" ->
            LET r == BinarySearch(ft.thread_stacks, AsU32(e.data))
            IN  ok([ft EXCEPT !.thread_stacks =
                                  IF r.found THEN RemoveAt(@, r.index) ELSE @])
      [] OTHER -> ok(ft)

RECURSIVE FastLoop(_, _, _)
FastLoop(r, events, i) ==
    IF r.panicked \/ i > Len(events) THEN r
    ELSE FastLoop(FastEvent(r.ft, events[i]), events, i + 1)

\* FastTrace::process_events, on a non-empty batch.
FastProcessEvents(ft, events) ==
    LET r == FastLoop([panicked |-> FALSE, ft |-> [ft EXCEPT !.in_gc = FALSE]], events, 1)
    IN  IF r.panicked THEN r
        ELSE [r EXCEPT !.ft.in_gc = (Last(events).type = "GCStart")]

(***************************************************************************)
(* SlowTrace                           src/src/trace_state.rs              *)
(***************************************************************************)
CallBox(start_time, end_time, method_id, depth) ==
    [ start_time |-> encode_time(start_time), end_time |-> encode_time(end_time),
      method_id |-> method_id, depth |-> depth ]

CallStackEntry(vertex_index, method_id) ==
    [ vertex_index |-> vertex_index, method_id |-> method_id ]

\* vertices[index]: whether the index is in bounds (it panics when not).
InBounds(index, vertices) == index < Len(vertices)

\* Mutant: the box is ended at its own start.
M_SetEndAtStart(vertices, index, at) ==
    [vertices EXCEPT ![index + 1].end_time = vertices[index + 1].start_time]

\* An assignment of end_time that is lost.
M_SetEndLost(vertices, index, at) == vertices

\* vertices[index].end_time = encode_time(at), index counted from 0.
SetEnd(vertices, index, at) ==
    [vertices EXCEPT ![index + 1].end_time = encode_time(at)]

\* trace, lines 109-136: the work items seeded from the snapshot; the frames
\* of the current thread get a box start_time..end_time unless in_gc.
SlowSeed(start_time, end_time, fast_trace) ==
    [ i \in 1..Len(fast_trace.thread_stacks) |->
        LET t == fast_trace.thread_stacks[i]
            boxed == ~fast_trace.in_gc /\ fast_trace.current_thread = i - 1
        IN  [ tid |-> t.tid,
              stack |-> [ d \in 1..Len(t.stack) |->
                            CallStackEntry(IF boxed THEN d - 1 ELSE USIZE_MAX, t.stack[d]) ],
              vertices |-> IF boxed
                           THEN [ d \in 1..Len(t.stack) |->
                                    CallBox(start_time, end_time, AsU32(t.stack[d]), d - 1) ]
                           ELSE << >> ] ]

\* trace, lines 137-143: the state the replay loop starts in.  cur is the
\* index of the current thread's work item, or -1 when current_stack and
\* current_vertices point at null_vec1 and null_vec2.
SlowStart(start_time, end_time, fast_trace) ==
    [ panicked |-> FALSE,
      call_stack |-> SlowSeed(start_time, end_time, fast_trace),
      cur |-> IF fast_trace.current_thread < Len(fast_trace.thread_stacks)
              THEN fast_trace.current_thread ELSE -1,
      null_vec1 |-> << >>,
      null_vec2 |-> << >> ]

current_stack(s) == IF s.cur = -1 THEN s.null_vec1 ELSE s.call_stack[s.cur + 1].stack
current_vertices(s) == IF s.cur = -1 THEN s.null_vec2 ELSE s.call_stack[s.cur + 1].vertices

\* The loop state with the current stack and vertex list replaced.
WithCurrent(s, stack, vertices) ==
    IF s.cur = -1
    THEN [s EXCEPT !.null_vec1 = stack, !.null_vec2 = vertices]
    ELSE [s EXCEPT !.call_stack[s.cur + 1].stack = stack,
                   !.call_stack[s.cur + 1].vertices = vertices]

\* trace, lines 160-171: Return.  Pops, ending each popped frame's box, up to
\* the frame of the event's method; panics on a frame whose index is out of
\* bounds.
RECURSIVE SlowReturn(_, _, _)
SlowReturn(stack, vertices, e) ==
    IF stack = << >> THEN [panicked |-> FALSE, stack |-> stack, vertices |-> vertices]
    ELSE LET top == Last(stack) IN
         IF ~InBounds(top.vertex_index, vertices)
         THEN [panicked |-> TRUE, stack |-> Front(stack), vertices |-> vertices]
         ELSE IF top.method_id = e.data
         THEN [ panicked |-> FALSE, stack |-> Front(stack),
                vertices |-> SetEnd(vertices, top.vertex_index, e.timestamp) ]
         ELSE SlowReturn(Front(stack), SetEnd(vertices, top.vertex_index, e.timestamp), e)

\* trace, lines 172-177 and 197-202: GCStart and ThreadSuspended, frame by frame.
RECURSIVE SlowCut(_, _, _, _)
SlowCut(stack, vertices, at, i) ==
    IF i > Len(stack) THEN [panicked |-> FALSE, stack |-> stack, vertices |-> vertices]
    ELSE IF ~InBounds(stack[i].vertex_index, vertices)
    THEN [panicked |-> TRUE, stack |-> stack, vertices |-> vertices]
    ELSE SlowCut([stack EXCEPT ![i].vertex_index = USIZE_MAX],
                 SetEnd(vertices, stack[i].vertex_index, at), at, i + 1)

\* trace, lines 178-196: GCEnd, frame by frame.
RECURSIVE SlowReopen(_, _, _, _, _)
SlowReopen(stack, vertices, at, end_time, i) ==
    IF i > Len(stack) THEN [stack |-> stack, vertices |-> vertices]
    ELSE SlowReopen([stack EXCEPT ![i].vertex_index = Len(vertices)],
                    Append(vertices, CallBox(at, end_time, AsU32(stack[i].method_id), i - 1)),
                    at, end_time, i + 1)

\* One round of the replay loop of SlowTrace::trace, lines 144-217.
SlowEvent(s, e, end_time) ==
    LET stack == current_stack(s)
        vertices == current_vertices(s)
    IN
    CASE e.type = "Call" ->
            WithCurrent(s,
                Append(stack, CallStackEntry(Len(vertices), e.data)),
                Append(vertices, CallBox(e.timestamp, end_time, AsU32(e.data), Len(stack))))
      [] e.type = "Return" ->
            LET r == SlowReturn(stack, vertices, e)
            IN  [WithCurrent(s, r.stack, r.vertices) EXCEPT !.panicked = r.panicked]
      [] e.type \in {"GCStart", "ThreadSuspended"} ->
            LET r == SlowCut(stack, vertices, e.timestamp, 1)
            IN  [WithCurrent(s, r.stack, r.vertices) EXCEPT !.panicked = r.panicked]
      [] e.type = "GCEnd" ->
            LET r == SlowReopen(stack, vertices, e.timestamp, end_time, 1)
            IN  WithCurrent(s, r.stack, r.vertices)
      [] e.type = "ThreadResume" ->
            LET thread_id == AsU32(e.data)
                r == BinarySearch(s.call_stack, thread_id)
            IN  [s EXCEPT
                   !.call_stack =
                       IF r.found THEN @
                       ELSE InsertAt(@, r.index,
                                [tid |-> thread_id, stack |-> << >>, vertices |-> << >>]),
                   !.cur = r.index]
      [] OTHER -> s

RECURSIVE SlowLoop(_, _, _, _)
SlowLoop(s, events, end_time, i) ==
    IF s.panicked \/ i > Len(events) THEN s
    ELSE SlowLoop(SlowEvent(s, events[i], end_time), events, end_time, i + 1)

\* SlowTrace::trace on a non-empty batch: the SlowTrace, or panicked.
SlowTraceTrace(start_time, fast_trace, events) ==
    LET end_time == Last(events).timestamp
        s == SlowLoop(SlowStart(start_time, end_time, fast_trace), events, end_time, 1)
    IN  [ panicked |-> s.panicked, data |-> s.call_stack, end_time |-> end_time ]

(***************************************************************************)
(* ThreadStack and TraceState          src/src/trace_state.rs              *)
(*                                                                         *)
(* vertices is the host side (data) of the GpuSyncVec; its dirty range and *)
(* GPU buffers are not part of these specifications.  free_slot, a         *)
(* BinaryHeap<Reverse<usize>>, is the ascending list of what the heap      *)
(* holds (an index twice if it was pushed twice); visible_call_depth, a    *)
(* MultiSet over a BTreeMap, is the function depth -> count on its keys.   *)
(***************************************************************************)
ThreadStackNew ==
    [ call_stack |-> << >>, vertices |-> << >>, ready_for_free_slot |-> << >>,
      free_slot |-> << >>, used_slot |-> {}, visible_call_depth |-> << >>,
      free_depth |-> << >> ]

\* BinaryHeap::push(Reverse(index)).
HeapPush(heap, index) ==
    LET n == Cardinality({ i \in 1..Len(heap) : heap[i] <= index })
    IN  InsertAt(heap, n, index)

\* MultiSet::insert.
MultiSetInsert(inner, value) ==
    IF value \in DOMAIN inner
    THEN [inner EXCEPT ![value] = @ + 1]
    ELSE [ k \in DOMAIN inner \cup {value} |-> IF k = value THEN 1 ELSE inner[k] ]

\* A remove that removes nothing.
M_MultiSetRemoveLost(inner, value) == inner

\* MultiSet::remove.
MultiSetRemove(inner, value) ==
    IF value \notin DOMAIN inner THEN inner
    ELSE IF inner[value] <= 1
    THEN [ k \in DOMAIN inner \ {value} |-> inner[k] ]
    ELSE [inner EXCEPT ![value] = @ - 1]

\* Mutant: a slot is freed already when exit_at + VISIBLE_DURATION = at.
RECURSIVE M_SyncFreeSlotAtWindow(_, _)
M_SyncFreeSlotAtWindow(st, at) ==
    IF /\ st.ready_for_free_slot # << >>
       /\ U64Le(U64Add(Head(st.ready_for_free_slot)[2], VISIBLE_DURATION), at)
    THEN LET index == Head(st.ready_for_free_slot)[1] IN
         M_SyncFreeSlotAtWindow([st EXCEPT !.ready_for_free_slot = Tail(@),
                                           !.free_slot = HeapPush(@, index),
                                           !.used_slot = @ \ {index}], at)
    ELSE st

\* ThreadStack::sync_free_slot.
RECURSIVE sync_free_slot(_, _)
sync_free_slot(st, at) ==
    IF /\ st.ready_for_free_slot # << >>
       /\ U64Lt(U64Add(Head(st.ready_for_free_slot)[2], VISIBLE_DURATION), at)
    THEN LET index == Head(st.ready_for_free_slot)[1] IN
         sync_free_slot([st EXCEPT !.ready_for_free_slot = Tail(@),
                                   !.free_slot = HeapPush(@, index),
                                   !.used_slot = @ \ {index}], at)
    ELSE st

\* A slot allocation that reads the top of the heap without popping it.
M_AllocSlotPeek(st, vertex) ==
    IF st.free_slot # << >> /\ Head(st.free_slot) < Len(st.vertices)
    THEN [ index |-> Head(st.free_slot),
           st |-> [st EXCEPT !.vertices[Head(st.free_slot) + 1] = vertex] ]
    ELSE [ index |-> Len(st.vertices),
           st |-> [st EXCEPT !.vertices = Append(@, vertex)] ]

\* enter, lines 278-287, and resume_all, lines 344-353: the slot for a new
\* box.  The heap is popped first; the popped index is used if the host vector
\* still has it, and is dropped otherwise, the box being appended.
AllocSlot(st, vertex) ==
    IF st.free_slot # << >> /\ Head(st.free_slot) < Len(st.vertices)
    THEN [ index |-> Head(st.free_slot),
           st |-> [st EXCEPT !.free_slot = Tail(@),
                             !.vertices[Head(st.free_slot) + 1] = vertex] ]
    ELSE [ index |-> Len(st.vertices),
           st |-> [st EXCEPT !.free_slot = IF @ = << >> THEN @ ELSE Tail(@),
                             !.vertices = Append(@, vertex)] ]

\* An enter whose box ends where it starts instead of at the open sentinel.
M_EnterClosed(st0, at, enter_method_id) ==
    LET st == sync_free_slot(st0, at)
        depth == Len(st.call_stack)
        a == AllocSlot(st, CallBox(at, at, AsU32(enter_method_id), depth))
    IN  [a.st EXCEPT
           !.call_stack = Append(@, CallStackEntry(a.index, enter_method_id)),
           !.used_slot = @ \cup {a.index},
           !.visible_call_depth = MultiSetInsert(@, depth)]

\* ThreadStack::enter.
enter(st0, at, enter_method_id) ==
    LET st == sync_free_slot(st0, at)
        depth == Len(st.call_stack)
        a == AllocSlot(st, CallBox(at, U64_MAX, AsU32(enter_method_id), depth))
    IN  [a.st EXCEPT
           !.call_stack = Append(@, CallStackEntry(a.index, enter_method_id)),
           !.used_slot = @ \cup {a.index},
           !.visible_call_depth = MultiSetInsert(@, depth)]

\* ThreadStack::exit.  panicked: vertices[vertex_index] out of bounds.
RECURSIVE exit(_, _, _)
exit(st, at, exit_method_id) ==
    IF st.call_stack = << >> THEN [panicked |-> FALSE, st |-> st]
    ELSE LET entry == Last(st.call_stack)
             popped == [st EXCEPT !.call_stack = Front(@),
                                  !.free_depth = Append(@, <<Len(st.call_stack) - 1, at>>)]
         IN  IF entry.vertex_index # USIZE_MAX /\ ~InBounds(entry.vertex_index, st.vertices)
             THEN [panicked |-> TRUE, st |-> popped]
             ELSE LET closed ==
                          IF entry.vertex_index # USIZE_MAX
                          THEN [popped EXCEPT
                                  !.vertices = SetEnd(@, entry.vertex_index, at),
                                  !.ready_for_free_slot =
                                      Append(@, <<entry.vertex_index, at>>)]
                          ELSE popped
                  IN  IF exit_method_id = entry.method_id
                      THEN [panicked |-> FALSE, st |-> closed]
                      ELSE exit(closed, at, exit_method_id)

\* cut_all, lines 318-322: the frames, one after the other.
RECURSIVE cut_frames(_, _, _)
cut_frames(st, at, i) ==
    IF i > Len(st.call_stack) THEN [panicked |-> FALSE, st |-> st]
    ELSE LET index == st.call_stack[i].vertex_index IN
         IF ~InBounds(index, st.vertices)
         THEN [panicked |-> TRUE, st |-> [st EXCEPT !.call_stack[i].vertex_index = USIZE_MAX]]
         ELSE cut_frames([st EXCEPT !.call_stack[i].vertex_index = USIZE_MAX,
                                    !.vertices = SetEnd(@, index, at),
                                    !.ready_for_free_slot = Append(@, <<index, at>>)],
                         at, i + 1)

\* A cut_all whose second loop starts at the second frame.
M_CutAllSkipFirst(st, at) ==
    cut_frames([st EXCEPT !.free_depth =
                    @ \o [ d \in 1..Len(st.call_stack) |-> <<d - 1, at>> ]], at, 2)

\* ThreadStack::cut_all.  panicked: vertices[index] out of bounds.
cut_all(st, at) ==
    cut_frames([st EXCEPT !.free_depth =
                    @ \o [ d \in 1..Len(st.call_stack) |-> <<d - 1, at>> ]], at, 1)

\* resume_all, lines 330-356: the frames, one after the other.
RECURSIVE resume_frames(_, _, _)
resume_frames(st, at, i) ==
    IF i > Len(st.call_stack) THEN st
    ELSE LET a == AllocSlot(st, CallBox(at, U64_MAX,
                                        AsU32(st.call_stack[i].method_id), i - 1))
         IN  resume_frames([a.st EXCEPT !.call_stack[i].vertex_index = a.index,
                                        !.used_slot = @ \cup {a.index}],
                           at, i + 1)

RECURSIVE InsertDepths(_, _, _)
InsertDepths(inner, depth, n) ==
    IF depth >= n THEN inner ELSE InsertDepths(MultiSetInsert(inner, depth), depth + 1, n)

\* ThreadStack::resume_all.
resume_all(st0, at) ==
    LET st == sync_free_slot(st0, at) IN
    resume_frames([st EXCEPT !.visible_call_depth =
                       InsertDepths(@, 0, Len(st.call_stack))], at, 1)

\* sync, lines 363-368: the drain of free_depth.
RECURSIVE drain_free_depth(_, _)
drain_free_depth(st, now) ==
    IF /\ st.free_depth # << >>
       /\ U64Lt(U64Add(Head(st.free_depth)[2], VISIBLE_DURATION), now)
    THEN drain_free_depth(
             [st EXCEPT !.free_depth = Tail(@),
                        !.visible_call_depth = MultiSetRemove(@, Head(st.free_depth)[1])],
             now)
    ELSE st

\* The largest element of a non-empty set of numbers (BTreeSet::last).
SetMax(S) == CHOOSE x \in S : \A y \in S : y <= x

\* GpuSyncVec::truncate, on the host data.
Truncate(data, len) == IF len < Len(data) THEN SubSeq(data, 1, len) ELSE data

\* A sync that keeps as many boxes as there are used slots.
M_ThreadStackSyncCount(st, now) ==
    drain_free_depth([st EXCEPT !.vertices = Truncate(@, Cardinality(st.used_slot))], now)

\* ThreadStack::sync.
ThreadStackSync(st, now) ==
    LET required_len == IF st.used_slot = {} THEN 0 ELSE SetMax(st.used_slot) + 1
    IN  drain_free_depth([st EXCEPT !.vertices = Truncate(@, required_len)], now)

TraceStateNew ==
    [ thread_stacks |-> << >>, base_time |-> U64(0), last_thread_id |-> 0,
      exited_threads |-> << >> ]

\* thread_data!(tid): the ThreadStack of tid, a new one if there is none.
thread_data(ts, tid) ==
    IF tid \in DOMAIN ts.thread_stacks THEN ts.thread_stacks[tid] ELSE ThreadStackNew

\* Mutant: the ThreadStack is stored for every thread of the map.
M_WithStackAll(ts, tid, st) ==
    [ts EXCEPT !.thread_stacks = [ t \in DOMAIN ts.thread_stacks \cup {tid} |-> st ]]

\* The map with the ThreadStack of tid set.
WithStack(ts, tid, st) ==
    [ts EXCEPT !.thread_stacks =
        [ t \in DOMAIN ts.thread_stacks \cup {tid} |->
            IF t = tid THEN st ELSE ts.thread_stacks[t] ]]

\* One round of the loop of TraceState::process_events.
TraceStateEvent(ts0, e) ==
    LET ts == [ts0 EXCEPT !.base_time = e.timestamp]
        ok(v) == [panicked |-> FALSE, ts |-> v]
        from(tid, r) == [panicked |-> r.panicked, ts |-> WithStack(ts, tid, r.st)]
    IN
    CASE e.type = "Call" ->
            ok(WithStack(ts, ts.last_thread_id,
                         enter(thread_data(ts, ts.last_thread_id), e.timestamp, e.data)))
      [] e.type = "Return" ->
            from(ts.last_thread_id,
                 exit(thread_data(ts, ts.last_thread_id), e.timestamp, e.data))
      [] e.type = "GCStart" ->
            from(ts.last_thread_id,
                 cut_all(thread_data(ts, ts.last_thread_id), e.timestamp))
      [] e.type = "GCEnd" ->
            ok(WithStack(ts, ts.last_thread_id,
                         resume_all(thread_data(ts, ts.last_thread_id), e.timestamp)))
      [] e.type = "ThreadSuspended" ->
            from(AsU32(e.data), cut_all(thread_data(ts, AsU32(e.data)), e.timestamp))
      [] e.type = "ThreadResume" ->
            ok(WithStack([ts EXCEPT !.last_thread_id = AsU32(e.data)], AsU32(e.data),
                         resume_all(thread_data(ts, AsU32(e.data)), e.timestamp)))
      [] e.type = "ThreadExit" ->
            ok([ts EXCEPT !.exited_threads = Append(@, <<AsU32(e.data), e.timestamp>>)])
      [] OTHER -> ok(ts)

\* sync, lines 466-472: the eviction of threads that exited long enough ago.
RECURSIVE evict_exited(_)
evict_exited(ts) ==
    IF ts.exited_threads = << >> THEN ts
    ELSE IF U64Le(ts.base_time, U64Add(Head(ts.exited_threads)[2], VISIBLE_DURATION))
    THEN ts
    ELSE LET tid == Head(ts.exited_threads)[1] IN
         evict_exited([ts EXCEPT
                         !.exited_threads = Tail(@),
                         !.thread_stacks =
                             [ t \in DOMAIN ts.thread_stacks \ {tid} |-> ts.thread_stacks[t] ]])

\* TraceState::sync.
TraceStateSync(ts0) ==
    LET ts == evict_exited(ts0) IN
    [ts EXCEPT !.thread_stacks =
        [ t \in DOMAIN ts.thread_stacks |->
            ThreadStackSync(ts.thread_stacks[t], ts.base_time) ]]

(***************************************************************************)
(* The ring buffer                     src/src/ringbuffer.rs               *)
(***************************************************************************)
SIZE == 65536
MASK == SIZE - 1

\* x & MASK.  MASK = SIZE - 1 with SIZE a power of two, so the bit-and keeps
\* the low 16 bits: the remainder modulo SIZE.
AndMask(x) == x % (MASK + 1)

\* Bounds of the ring specification.
MaxWrites == 2      \* events the producer writes after the start state
MaxReads == 3       \* read calls
MaxOut == 2         \* largest out.len() of a read call

\* The event the producer writes at sequence number i.  Distinct per index, so
\* a lost, duplicated or reordered event shows in what the reader returns;
\* never 0, the content of a slot of the zeroed region.
EventAt(i) == i + 1

\* The start states: ring states the producer and the reader reach from the
\* zeroed region (both indices 0) by w0 writes and r0 reads.  They put the
\* reader near the wrap boundary and the producer near a full ring, which the
\* zeroed region reaches only after tens of thousands of steps.
RingStarts ==
    { s \in [r0 : {0, SIZE - 1, 2 * SIZE - 2}, fill : {0, 1, SIZE - 1, SIZE},
             cache : {"read", "write"}, rcache : {"read", "lag"}] : TRUE }

\* What slot s holds in the start state with write index w0: the latest event
\* written there, or 0 (zeroed memory) when none was.
InitSlot(w0, s) ==
    IF w0 <= s THEN 0
    ELSE EventAt((w0 - 1) - (((w0 - 1) - s) % SIZE))

\* ring.buffer keeps the slots written since the start state; the others hold
\* what the start state held.
Slot(s) == IF s \in DOMAIN ring.buffer THEN ring.buffer[s] ELSE InitSlot(rlog.w0, s)

\* (write_index - read_index) as usize: u64 subtraction; a negative difference
\* wraps to a value above every length.
WrappingSub(a, b) == IF a >= b THEN a - b ELSE USIZE_MAX - ((b - a) - 1)

\* A read that never loads the writer's index.
M_RefreshedCacheNever(read_index, write_index_cache, write_index) == write_index_cache

\* read, lines 36-45: the write index the call works with.  The cached value,
\* unless it shows nothing available: then the writer's index is loaded.
RefreshedCache(read_index, write_index_cache, write_index) ==
    IF WrappingSub(write_index_cache, read_index) = 0
    THEN write_index
    ELSE write_index_cache

\* read, lines 37-45: available.
Available(read_index, write_index_cache, write_index) ==
    WrappingSub(RefreshedCache(read_index, write_index_cache, write_index), read_index)

\* A read that forgets the caller's capacity.
M_ReadLenUncapped(available, buffer_len) == available

\* A read that fills the caller's buffer whatever is available.
M_ReadLenFull(available, buffer_len) == buffer_len

\* read, line 46: read_len.
ReadLen(available, buffer_len) == Min(available, buffer_len)

\* read, line 49: the length of buffer[read_index & MASK ..].
FirstPartLen(read_index) == SIZE - AndMask(read_index)

\* A copy whose second part counts from the start of the out buffer instead
\* of from the start of the ring.
M_SrcSlotNoRebase(read_index, read_len, i) ==
    IF i < FirstPartLen(read_index) THEN AndMask(read_index) + i ELSE i

\* read, lines 50-58: the ring slot copied to out[i], i = 0 .. read_len - 1.
SrcSlot(read_index, read_len, i) ==
    IF read_len <= FirstPartLen(read_index)
    THEN AndMask(read_index) + i
    ELSE IF i < FirstPartLen(read_index)
         THEN AndMask(read_index) + i
         ELSE i - FirstPartLen(read_index)

InitRing ==
    /\ \E s \in RingStarts :
        LET w0 == s.r0 + s.fill IN
        /\ ring = [ buffer |-> << >>,
                    writer |-> [ write_index |-> w0,
                                 read_index_cache |->
                                     IF s.rcache = "read" THEN s.r0
                                     ELSE Max(0, w0 - SIZE) ],
                    reader |-> [ read_index |-> s.r0,
                                 write_index_cache |->
                                     IF s.cache = "read" THEN s.r0 ELSE w0 ] ]
        /\ rlog = [ r0 |-> s.r0, w0 |-> w0, log |-> << >>, slots |-> << >>,
                    entry |-> [ read_index |-> s.r0, write_index_cache |-> s.r0,
                                write_index |-> s.r0, buffer_len |-> 1 ],
                    ret |-> 0, calls |-> 0, idle |-> TRUE,
                    prev |-> [ ret |-> 0, idle |-> FALSE ] ]
    /\ rd = [ pc |-> "idle", read_index |-> 0, read_len |-> 0, out |-> << >> ]
    /\ prod = [ pc |-> "idle", writes |-> 0 ]
    /\ NonRingOff

\* A reader that stores the advanced read_index on entry, before its copy.
M_ReadLoadStoresFirst(buffer_len) ==
    /\ rd.pc = "idle"
    /\ rlog.calls < MaxReads
    /\ LET read_index == ring.reader.read_index
           cache == ring.reader.write_index_cache
           write_index == ring.writer.write_index
           read_len == ReadLen(Available(read_index, cache, write_index), buffer_len)
       IN /\ ring' = [ring EXCEPT !.reader.write_index_cache =
                          RefreshedCache(read_index, cache, write_index),
                                  !.reader.read_index = read_index + read_len]
          /\ rd' = [ pc |-> "copy", read_index |-> read_index,
                     read_len |-> read_len, out |-> << >> ]
          /\ rlog' = [rlog EXCEPT
                        !.entry = [ read_index |-> read_index,
                                    write_index_cache |-> cache,
                                    write_index |-> write_index,
                                    buffer_len |-> buffer_len ],
                        !.slots = << >>,
                        !.calls = @ + 1,
                        !.idle = TRUE,
                        !.prev = [ ret |-> rlog.ret, idle |-> rlog.calls > 0 /\ rlog.idle ]]
    /\ UNCHANGED <<prod, NonRingVars>>

\* read, lines 35-47: the loads and read_len.  The only shared access is the
\* acquire load of the writer's write_index (line 40); read_index and
\* write_index_cache are written by the reader alone.
ReadLoad(buffer_len) ==
    /\ rd.pc = "idle"
    /\ rlog.calls < MaxReads
    /\ LET read_index == ring.reader.read_index
           cache == ring.reader.write_index_cache
           write_index == ring.writer.write_index
           read_len == ReadLen(Available(read_index, cache, write_index), buffer_len)
       IN /\ ring' = [ring EXCEPT !.reader.write_index_cache =
                          RefreshedCache(read_index, cache, write_index)]
          /\ rd' = [ pc |-> "copy", read_index |-> read_index,
                     read_len |-> read_len, out |-> << >> ]
          /\ rlog' = [rlog EXCEPT
                        !.entry = [ read_index |-> read_index,
                                    write_index_cache |-> cache,
                                    write_index |-> write_index,
                                    buffer_len |-> buffer_len ],
                        !.slots = << >>,
                        !.calls = @ + 1,
                        !.idle = TRUE,
                        !.prev = [ ret |-> rlog.ret, idle |-> rlog.calls > 0 /\ rlog.idle ]]
    /\ UNCHANGED <<prod, NonRingVars>>

\* read, lines 50-58: copy_from_slice, one slot after the other.
ReadCopy ==
    /\ rd.pc = "copy"
    /\ Len(rd.out) < rd.read_len
    /\ LET s == SrcSlot(rd.read_index, rd.read_len, Len(rd.out)) IN
        /\ rd' = [rd EXCEPT !.out = Append(@, Slot(s))]
        /\ rlog' = [rlog EXCEPT !.slots = Append(@, s)]
    /\ UNCHANGED <<ring, prod, NonRingVars>>

\* A reader that, with read_index, also stores the writer's read_index_cache.
M_ReadStoreAck ==
    /\ rd.pc = "copy"
    /\ Len(rd.out) = rd.read_len
    /\ ring' = [ring EXCEPT !.reader.read_index = rd.read_index + rd.read_len,
                            !.writer.read_index_cache = rd.read_index + rd.read_len]
    /\ rd' = [rd EXCEPT !.pc = "idle"]
    /\ rlog' = [rlog EXCEPT !.log = @ \o rd.out, !.ret = rd.read_len]
    /\ UNCHANGED <<prod, NonRingVars>>

\* read, lines 60-64: the release store of read_index, and the return.
ReadStore ==
    /\ rd.pc = "copy"
    /\ Len(rd.out) = rd.read_len
    /\ ring' = [ring EXCEPT !.reader.read_index = rd.read_index + rd.read_len]
    /\ rd' = [rd EXCEPT !.pc = "idle"]
    /\ rlog' = [rlog EXCEPT !.log = @ \o rd.out, !.ret = rd.read_len]
    /\ UNCHANGED <<prod, NonRingVars>>

\* The producer (the traced program; not part of this repository's sources):
\* it refreshes its cache of read_index when the cache shows the ring full,
ProducerRefresh ==
    /\ prod.pc = "idle"
    /\ ring.writer.write_index - ring.writer.read_index_cache >= SIZE
    /\ ring.writer.read_index_cache # ring.reader.read_index
    /\ ring' = [ring EXCEPT !.writer.read_index_cache = ring.reader.read_index]
    /\ rlog' = [rlog EXCEPT !.idle = FALSE]
    /\ UNCHANGED <<rd, prod, NonRingVars>>

\* writes slot write_index & MASK only while fewer than SIZE events are unread,
ProducerWrite ==
    /\ prod.pc = "idle"
    /\ prod.writes < MaxWrites
    /\ ring.writer.write_index - ring.writer.read_index_cache < SIZE
    /\ ring' = [ring EXCEPT !.buffer =
                   [ s \in DOMAIN ring.buffer \cup {AndMask(ring.writer.write_index)} |->
                       IF s = AndMask(ring.writer.write_index)
                       THEN EventAt(ring.writer.write_index)
                       ELSE ring.buffer[s] ]]
    /\ prod' = [prod EXCEPT !.pc = "publish", !.writes = @ + 1]
    /\ rlog' = [rlog EXCEPT !.idle = FALSE]
    /\ UNCHANGED <<rd, NonRingVars>>

\* and publishes write_index after the write (release store).
ProducerPublish ==
    /\ prod.pc = "publish"
    /\ ring' = [ring EXCEPT !.writer.write_index = @ + 1]
    /\ prod' = [prod EXCEPT !.pc = "idle"]
    /\ rlog' = [rlog EXCEPT !.idle = FALSE]
    /\ UNCHANGED <<rd, NonRingVars>>

NextRing ==
    \/ \E buffer_len \in 1..MaxOut : ReadLoad(buffer_len)
    \/ ReadCopy
    \/ ReadStore
    \/ ProducerRefresh
    \/ ProducerWrite
    \/ ProducerPublish

SpecRing == InitRing /\ [][NextRing]_vars

(***************************************************************************)
(* Claims about the ring                                                   *)
(***************************************************************************)

\* C1: a read call copies the ring slots (r + i) & 65535, i = 0 .. n-1, in that
\* order, r being read_index before the call, also across the wrap boundary;
\* and over every interleaving with the producer the concatenation of all read
\* outputs (the part of the running call included) is the producer's event
\* sequence from the first unread event on: nothing lost, duplicated, reordered.
C1_ReadCopiesInOrder ==
    /\ \A i \in 1..Len(rlog.slots) :
          rlog.slots[i] = (rlog.entry.read_index + (i - 1)) % 65536
    /\ \A j \in 1..Len(rlog.log) : rlog.log[j] = EventAt(rlog.r0 + (j - 1))
    /\ rd.pc = "copy" =>
          \A i \in 1..Len(rd.out) :
              rd.out[i] = EventAt(rlog.r0 + Len(rlog.log) + (i - 1))

\* A finished read call that crossed the wrap boundary (slot 65535, then slot
\* 0), and returned an event the producer wrote while the model ran.
C1_Witness ==
    /\ rd.pc = "idle"
    /\ rlog.ret = 2
    /\ rlog.slots = <<65535, 0>>
    /\ \E j \in 1..Len(rlog.log) : rlog.log[j] > EventAt(rlog.w0 - 1)

\* The k of claim C2, from the state the call found on entry.
C2_K ==
    IF rlog.entry.write_index_cache - rlog.entry.read_index # 0
    THEN rlog.entry.write_index_cache - rlog.entry.read_index
    ELSE rlog.entry.write_index - rlog.entry.read_index

\* C2: a read call with out.len() >= 1 works with and returns n = min(k,
\* out.len()), k = write_index_cache - read_index if that is non-zero and
\* write_index - read_index otherwise, and sets read_index to its previous value
\* plus n; on an empty ring it returns 0 and leaves read_index as it was; a
\* call in progress can always take its next step (it waits for nothing).
C2_ReadReturnsMin ==
    /\ rlog.calls > 0 /\ rd.pc = "copy" =>
          /\ rd.read_len = Min(C2_K, rlog.entry.buffer_len)
          /\ ENABLED (ReadCopy \/ ReadStore)
    /\ rlog.calls > 0 /\ rd.pc = "idle" =>
          /\ rlog.ret = Min(C2_K, rlog.entry.buffer_len)
          /\ ring.reader.read_index = rlog.entry.read_index + rlog.ret
          /\ rlog.entry.write_index = rlog.entry.read_index =>
                /\ rlog.ret = 0
                /\ ring.reader.read_index = rlog.entry.read_index

\* A finished call that found its cache exhausted, loaded the writer's index,
\* found more than out.len() events and returned out.len() of them.
C2_Witness ==
    /\ rd.pc = "idle"
    /\ rlog.calls > 0
    /\ rlog.entry.write_index_cache = rlog.entry.read_index
    /\ rlog.entry.write_index > rlog.entry.read_index + rlog.entry.buffer_len
    /\ rlog.ret = rlog.entry.buffer_len

\* C3: in every reachable state read_index <= write_index and write_index -
\* read_index <= 65536, and the reader's write_index_cache is never below
\* read_index.
C3_IndexOrder ==
    /\ ring.reader.read_index <= ring.writer.write_index
    /\ ring.writer.write_index - ring.reader.read_index <= 65536
    /\ ring.reader.write_index_cache >= ring.reader.read_index

\* A read call has just advanced read_index up to write_index, after the
\* producer wrote all its events.
C3_Witness ==
    /\ rd.pc = "idle"
    /\ rlog.ret > 0
    /\ prod.writes = MaxWrites /\ prod.pc = "idle"
    /\ ring.reader.read_index = ring.writer.write_index

\* The last two read calls ran one after the other with no producer step
\* from the entry of the first to the return of the second.
C21_TwoReadsIdle ==
    /\ rd.pc = "idle"
    /\ rlog.calls >= 2
    /\ rlog.prev.idle /\ rlog.idle

\* C21 as stated: while the producer is idle, a read call followed by a second
\* read call has the second return 0 and leave read_index unchanged, whatever
\* the ring state and the capacities of the out buffers.
C21_SecondReadZero ==
    C21_TwoReadsIdle =>
       /\ rlog.ret = 0
       /\ ring.reader.read_index = rlog.entry.read_index

\* C21, amended: while the producer is idle, a read call that returned 0, or
\* that left read_index equal to the writer's write_index, is followed by a
\* read call that returns 0 and leaves read_index unchanged.
C21_SecondReadZeroWhenDrained ==
    (C21_TwoReadsIdle /\ (rlog.prev.ret = 0 \/ rlog.entry.read_index = rlog.entry.write_index)) =>
       /\ rlog.ret = 0
       /\ ring.reader.read_index = rlog.entry.read_index
       /\ rlog.entry.read_index = rlog.entry.write_index

\* Witness for C21: the first call returned events and drained the ring, the
\* second returned 0.
C21_Witness ==
    /\ C21_TwoReadsIdle
    /\ rlog.prev.ret > 0
    /\ rlog.entry.read_index = rlog.entry.write_index
    /\ rlog.ret = 0

\* A step of a read call: the reader's frame rd changes in each of them and
\* in no step of the producer.
C22_ReadStep == rd' # rd

\* C22 as stated: a read call changes no field of the shared region other
\* than read_index: the event slots, the writer block and every other field
\* (the reader's write_index_cache is the only one left) stay as they were.
C22_ReadWritesReadIndexOnly ==
    [][C22_ReadStep =>
          /\ ring'.buffer = ring.buffer
          /\ ring'.writer = ring.writer
          /\ ring'.reader.write_index_cache = ring.reader.write_index_cache]_vars

\* C22, amended: a read call changes no field of the shared region other than
\* read_index and the reader's own write_index_cache, which it sets to the
\* writer's write_index when the cache shows nothing available; the event
\* slots and the writer block stay as they were.
C22_ReadWritesReaderBlockOnly ==
    [][C22_ReadStep =>
          /\ ring'.buffer = ring.buffer
          /\ ring'.writer = ring.writer
          /\ ring'.reader.write_index_cache \in
                {ring.reader.write_index_cache, ring.writer.write_index}]_vars

\* Witness for C22: a read call ran to its end, having reloaded the cache on
\* entry and advanced read_index, on a ring the producer had written to.
C22_Witness ==
    /\ rd.pc = "idle"
    /\ rlog.ret > 0
    /\ rlog.entry.write_index_cache = rlog.entry.read_index
    /\ ring.reader.write_index_cache = rlog.entry.write_index
    /\ ring.buffer # << >>

\* The ring slots the running read call copies: those of the events
\* read_index .. read_index + read_len - 1.
C38_SlotsOfCall == { AndMask(rd.read_index + i) : i \in 0..(rd.read_len - 1) }

\* C38: in every interleaving of the reader and the producer, a read call
\* copies only events below the published write_index; the shared read_index
\* keeps its value of entry until the copy is complete; and the slot the
\* producer is writing held an event below the stored read_index and is not
\* one the running read call copies.
C38_NoSlotShared ==
    /\ rd.pc = "copy" =>
          /\ rd.read_index + rd.read_len <= ring.writer.write_index
          /\ ring.reader.read_index = rd.read_index
    /\ prod.pc = "publish" =>
          /\ ring.writer.write_index - ring.reader.read_index < 65536
          /\ rd.pc = "copy" => AndMask(ring.writer.write_index) \notin C38_SlotsOfCall

\* Witness for C38: the producer is writing a slot that held an earlier event
\* while a read call is in the middle of its copy.
C38_Witness ==
    /\ prod.pc = "publish"
    /\ ring.writer.write_index >= 65536
    /\ rd.pc = "copy"
    /\ rd.read_len = 2 /\ Len(rd.out) = 1

(***************************************************************************)
(* The pipeline                        src/src/main.rs                     *)
(*   producer -> ring -> queue_pipe_thread -> event_queue -> trace_thread   *)
(*            -> rayon workers -> result_queue                              *)
(***************************************************************************)

\* Bound of the pipeline specification: events the producer writes.
MaxEvents == 3

\* The events the producer chooses from, and the steps its clock takes: one
\* nanosecond, or just past the visibility window.
PipeKinds ==
    { <<"Call", 1>>, <<"Return", 1>>, <<"GCStart", 0>>,
      <<"ThreadSuspended", 0>>, <<"ThreadResume", 1>> }
PipeDeltas == { U64(1), U64Add(VISIBLE_DURATION, U64(1)) }

\* A whole read call (ReadLoad, the copies, ReadStore) on ring state rg: the
\* ring afterwards and the events copied out.
ReadCall(rg, buffer_len) ==
    LET read_index == rg.reader.read_index
        cache == rg.reader.write_index_cache
        write_index == rg.writer.write_index
        read_len == ReadLen(Available(read_index, cache, write_index), buffer_len)
    IN  [ ring |-> [rg EXCEPT
                      !.reader.write_index_cache =
                          RefreshedCache(read_index, cache, write_index),
                      !.reader.read_index = read_index + read_len],
          out |-> [ i \in 1..read_len |-> Slot(SrcSlot(read_index, read_len, i - 1)) ] ]

\* A reader that pushes its buffer cut one event short.
M_BatchShort(buffer, count) == SubSeq(buffer, 1, count - 1)

\* queue_pipe_thread, lines 158-159: buffer.truncate(count); buffer.clone().
Batch(buffer, count) == SubSeq(buffer, 1, count)

\* A trace thread that clones its FastTrace for the worker after it has
\* applied the batch.
M_WorkerTaskLate(start_time, fast_trace, events) ==
    [ pc |-> "spawned", start_time |-> start_time,
      fast_trace |-> FastProcessEvents(fast_trace, events).ft,
      events |-> events, latest |-> U64(0) ]

\* trace_thread, lines 177-190: the task handed to rayon_core::spawn.  The
\* closure owns a clone of fast_trace and of events, and a copy of start_time,
\* all taken when the closure is built.  latest is history: the value the task
\* loads from LATEST_END_TIME on entry.
WorkerTask(start_time, fast_trace, events) ==
    [ pc |-> "spawned", start_time |-> start_time, fast_trace |-> fast_trace,
      events |-> events, latest |-> U64(0) ]

\* trace_thread, lines 182-184: the staleness test of a task.
Stale(start_time, latest_end_time) ==
    U64Lt(U64Add(start_time, VISIBLE_DURATION), latest_end_time)

InitPipe ==
    /\ ring = [ buffer |-> << >>,
                writer |-> [write_index |-> 0, read_index_cache |-> 0],
                reader |-> [read_index |-> 0, write_index_cache |-> 0] ]
    /\ rlog = [ r0 |-> 0, w0 |-> 0, log |-> << >> ]
    /\ rd = 0
    /\ prod = [ writes |-> 0, now |-> U64(0) ]
    /\ event_queue = << >>
    /\ result_queue = << >>
    /\ LATEST_END_TIME = U64(0)
    /\ trace = [ pc |-> "pop", start_time |-> U64(0), fast_trace |-> FastTraceNew,
                 events |-> << >> ]
    /\ workers = << >>
    /\ pipe = [ pushed |-> << >>, popped |-> << >>, applied |-> << >>,
                aborted |-> FALSE ]
    /\ NonPipeOff

\* The producer writes one event and publishes it; its timestamps never
\* decrease.
PipeProduce(kind, delta) ==
    /\ ~pipe.aborted
    /\ prod.writes < MaxEvents
    /\ ring.writer.write_index - ring.reader.read_index < SIZE
    /\ LET now == U64Add(prod.now, delta)
           w == ring.writer.write_index
       IN /\ ring' = [ring EXCEPT
                        !.buffer = [ x \in DOMAIN ring.buffer \cup {AndMask(w)} |->
                                       IF x = AndMask(w) THEN Event(kind[1], now, kind[2])
                                       ELSE ring.buffer[x] ],
                        !.writer.write_index = w + 1]
          /\ prod' = [writes |-> prod.writes + 1, now |-> now]
    /\ UNCHANGED <<rd, rlog, PipeVars, NonPipeVars>>

\* queue_pipe_thread, lines 155-162: one round of the loop, with a buffer of
\* 65536 events.
QueuePipeRead ==
    /\ ~pipe.aborted
    /\ LET r == ReadCall(ring, 65536)
           count == Len(r.out)
       IN /\ ring' = r.ring
          /\ IF count > 0
             THEN /\ event_queue' = Append(event_queue, Batch(r.out, count))
                  /\ rlog' = [rlog EXCEPT !.log = @ \o r.out]
                  /\ pipe' = [pipe EXCEPT !.pushed = Append(@, Batch(r.out, count))]
             ELSE UNCHANGED <<event_queue, rlog, pipe>>
    /\ UNCHANGED <<rd, prod, result_queue, LATEST_END_TIME, trace, workers, NonPipeVars>>

\* trace_thread, lines 174-190: pop a batch and spawn its task.
TraceSpawn ==
    /\ ~pipe.aborted
    /\ trace.pc = "pop"
    /\ event_queue # << >>
    /\ LET events == Head(event_queue) IN
        /\ event_queue' = Tail(event_queue)
        /\ workers' = Append(workers,
                             WorkerTask(trace.start_time, trace.fast_trace, events))
        /\ trace' = [trace EXCEPT !.pc = "apply", !.events = events]
        /\ pipe' = [pipe EXCEPT !.popped = Append(@, events)]
    /\ UNCHANGED <<RingVars, result_queue, LATEST_END_TIME, NonPipeVars>>

\* trace_thread, lines 191-194: apply the batch, store its end time.  A panic
\* in process_events ends the trace thread.
TraceApply ==
    /\ ~pipe.aborted
    /\ trace.pc = "apply"
    /\ LET r == FastProcessEvents(trace.fast_trace, trace.events)
           end_time == Last(trace.events).timestamp
       IN IF r.panicked
          THEN /\ trace' = [trace EXCEPT !.pc = "panicked"]
               /\ UNCHANGED <<LATEST_END_TIME, pipe>>
          ELSE /\ trace' = [ pc |-> "pop", start_time |-> end_time,
                             fast_trace |-> r.ft, events |-> << >> ]
               /\ LATEST_END_TIME' = end_time
               /\ pipe' = [pipe EXCEPT !.applied = Append(@, trace.events)]
    /\ UNCHANGED <<RingVars, event_queue, result_queue, workers, NonPipeVars>>

\* The task of batch k, lines 182-186: load LATEST_END_TIME, return if stale.
WorkerCheck(k) ==
    /\ ~pipe.aborted
    /\ workers[k].pc = "spawned"
    /\ workers' = [workers EXCEPT
                     ![k].latest = LATEST_END_TIME,
                     ![k].pc = IF Stale(workers[k].start_time, LATEST_END_TIME)
                               THEN "dropped" ELSE "tracing"]
    /\ UNCHANGED <<RingVars, event_queue, result_queue, LATEST_END_TIME, trace, pipe, NonPipeVars>>

\* Mutant: a queue that keeps its items in the order of their batches.
M_ResultPushInBatchOrder(queue, item) ==
    LET before == { i \in 1..Len(queue) : queue[i].batch < item.batch }
    IN  SubSeq(queue, 1, Cardinality(before)) \o << item >>
        \o SubSeq(queue, Cardinality(before) + 1, Len(queue))

\* result_queue.push(slow_trace), line 188: SegQueue::push, at the tail.
ResultPush(queue, item) == Append(queue, item)

\* The task of batch k, lines 187-188: trace and push.  A panic in a task
\* given to rayon_core::spawn, with no panic handler set, aborts the process.
WorkerTrace(k) ==
    /\ ~pipe.aborted
    /\ workers[k].pc = "tracing"
    /\ LET slow_trace == SlowTraceTrace(workers[k].start_time, workers[k].fast_trace,
                                        workers[k].events)
       IN IF slow_trace.panicked
          THEN /\ workers' = [workers EXCEPT ![k].pc = "panicked"]
               /\ pipe' = [pipe EXCEPT !.aborted = TRUE]
               /\ UNCHANGED result_queue
          ELSE /\ workers' = [workers EXCEPT ![k].pc = "pushed"]
               /\ result_queue' = ResultPush(result_queue,
                                             [batch |-> k, slow_trace |-> slow_trace])
               /\ UNCHANGED pipe
    /\ UNCHANGED <<RingVars, event_queue, LATEST_END_TIME, trace, NonPipeVars>>

NextPipe ==
    \/ \E kind \in PipeKinds, delta \in PipeDeltas : PipeProduce(kind, delta)
    \/ QueuePipeRead
    \/ TraceSpawn
    \/ TraceApply
    \/ \E k \in 1..Len(workers) : WorkerCheck(k)
    \/ \E k \in 1..Len(workers) : WorkerTrace(k)

SpecPipe == InitPipe /\ [][NextPipe]_vars

(***************************************************************************)
(* Claims about the pipeline                                               *)
(***************************************************************************)

\* The FastTrace that results from applying the first n of the batches, in
\* order, to a fresh FastTrace.
RECURSIVE C4_Applied(_, _)
C4_Applied(batches, n) ==
    IF n = 0 THEN FastTraceNew
    ELSE FastProcessEvents(C4_Applied(batches, n - 1), batches[n]).ft

\* C4: the FastTrace handed to the worker of batch k is the result of applying
\* batches 0 .. k-1, in order, to a fresh FastTrace, and the worker's
\* start_time is the timestamp of the last event of batch k-1 (0 for the first
\* batch); it holds of every task, whether it has run yet or not.
C4_SnapshotAtBatchStart ==
    \A k \in 1..Len(workers) :
        /\ workers[k].events = pipe.popped[k]
        /\ workers[k].fast_trace = C4_Applied(pipe.popped, k - 1)
        /\ workers[k].start_time =
               IF k = 1 THEN U64(0) ELSE Last(pipe.popped[k - 1]).timestamp

\* The worker of a second or later batch has run and pushed its SlowTrace,
\* and its snapshot held an open call left by the batches before it.
C4_Witness ==
    \E k \in 2..Len(workers) :
        /\ workers[k].pc = "pushed"
        /\ \E i \in 1..Len(workers[k].fast_trace.thread_stacks) :
               workers[k].fast_trace.thread_stacks[i].stack # << >>
        /\ workers[k].start_time # U64(0)

\* The concatenation of a list of batches.
RECURSIVE C5_Concat(_)
C5_Concat(batches) ==
    IF batches = << >> THEN << >> ELSE Head(batches) \o C5_Concat(Tail(batches))

\* C5: the trace thread pops and applies batches in exactly the order the
\* reader pushed them: what it has popped and what still waits in event_queue
\* are together the batches pushed, the batches applied are the first ones
\* popped, and the batches pushed concatenate to the events the reader read
\* from the ring; no batch is skipped, repeated or taken out of order.
C5_BatchesInOrder ==
    /\ pipe.popped \o event_queue = pipe.pushed
    /\ C5_Concat(pipe.pushed) = rlog.log
    /\ Len(pipe.applied) <= Len(pipe.popped)
    /\ pipe.applied = SubSeq(pipe.popped, 1, Len(pipe.applied))
    /\ trace.pc = "pop" => pipe.applied = pipe.popped
    /\ trace.pc = "apply" =>
          /\ Len(pipe.popped) = Len(pipe.applied) + 1
          /\ trace.events = Last(pipe.popped)

\* Two different batches were applied, one of them with two or more events.
C5_Witness ==
    /\ Len(pipe.applied) >= 2
    /\ pipe.applied[1] # pipe.applied[2]
    /\ \E i \in 1..Len(pipe.applied) : Len(pipe.applied[i]) >= 2

\* C6: a task that has ended pushed a SlowTrace if and only if the value it
\* loaded from LATEST_END_TIME on entry satisfies start_time +
\* VISIBLE_DURATION >= that value; and no batch has more than one SlowTrace
\* in the result queue.
C6_PushIffNotStale ==
    /\ \A k \in 1..Len(workers) :
          workers[k].pc \in {"dropped", "pushed", "panicked"} =>
              ( (\E i \in 1..Len(result_queue) : result_queue[i].batch = k)
                <=> U64Le(workers[k].latest,
                          U64Add(workers[k].start_time, VISIBLE_DURATION)) )
    /\ \A i, j \in 1..Len(result_queue) :
          result_queue[i].batch = result_queue[j].batch => i = j

\* C35: a batch is dropped as stale only if a batch end recorded in
\* LATEST_END_TIME, the one its task loaded, exceeds the batch's own end_time
\* + VISIBLE_DURATION; so the first batch of a run, whose start_time is 0,
\* is not dropped while its last event is inside the window, and the batch
\* dequeued last is never dropped, however the task's load falls against
\* the trace thread's store.
C35_DroppedOnlyOutsideWindow ==
    \A k \in 1..Len(workers) :
       workers[k].pc = "dropped"
       => /\ U64Lt(U64Add(Last(workers[k].events).timestamp, VISIBLE_DURATION),
                   workers[k].latest)
          /\ k # Len(workers)

\* C36: the result queue is in the order of the pushes, not of the batches:
\* every change of it puts the SlowTrace of a task that was tracing at its
\* tail, whatever results of later batches it holds already.  With two tasks
\* in flight the later batch's result can so stand before the earlier one's.
C36_PushedAtTail ==
    [][ result_queue' # result_queue
        => /\ Len(result_queue') = Len(result_queue) + 1
           /\ SubSeq(result_queue', 1, Len(result_queue)) = result_queue
           /\ workers[Last(result_queue').batch].pc = "tracing"
           /\ workers'[Last(result_queue').batch].pc = "pushed" ]_vars

\* C36 witness: the result of a later batch stands in the result queue
\* before the result of an earlier batch.
C36_Witness ==
    \E i, j \in 1..Len(result_queue) :
       i < j /\ result_queue[i].batch > result_queue[j].batch

\* The pipeline under fair scheduling of its threads: the reader thread,
\* the trace thread and every task of the pool take each step that stays
\* possible.  The producer is not obliged to write.
FairPipe ==
    /\ WF_vars(QueuePipeRead)
    /\ WF_vars(TraceSpawn)
    /\ WF_vars(TraceApply)
    /\ \A k \in 1..MaxEvents : WF_vars(k <= Len(workers) /\ WorkerCheck(k))
    /\ \A k \in 1..MaxEvents : WF_vars(k <= Len(workers) /\ WorkerTrace(k))

SpecPipeFair == InitPipe /\ [][NextPipe]_vars /\ FairPipe

\* The number of events in the batches the trace thread has applied.
C37_AppliedCount == Len(C5_Concat(pipe.applied))

\* C37: under fair scheduling every published event is eventually applied to
\* the trace thread's FastTrace, every batch the trace thread has dequeued
\* eventually has its SlowTrace pushed or is dropped as stale, and neither
\* the trace thread nor the process stops.
C37_PipelineLive ==
    /\ \A n \in 1..MaxEvents : (prod.writes >= n) ~> (C37_AppliedCount >= n)
    /\ \A k \in 1..MaxEvents :
          (Len(workers) >= k)
          ~> (Len(workers) >= k /\ workers[k].pc \in {"pushed", "dropped"})
    /\ [](trace.pc # "panicked" /\ ~pipe.aborted)

(***************************************************************************)
(* SpecTS: a TraceState fed one event at a time, sync calls in between     *)
(***************************************************************************)

\* Bound: events given to the TraceState after its start state.
MaxTSEvents == 3

\* The events fed to the TraceState, and the steps of the clock between two
\* events: one nanosecond, the visibility window, or just past it.
TSKinds ==
    { <<"Call", 1>>, <<"Call", 2>>, <<"Return", 1>>, <<"GCStart", 0>>, <<"GCEnd", 0>>,
      <<"ThreadSuspended", 0>>, <<"ThreadSuspended", 1>>,
      <<"ThreadResume", 0>>, <<"ThreadResume", 1>>, <<"ThreadExit", 0>> }
TSDeltas == { U64(1), VISIBLE_DURATION, U64Add(VISIBLE_DURATION, U64(1)) }

\* TraceState::process_events on a slice, round by round.
RECURSIVE TraceStateLoop(_, _, _)
TraceStateLoop(r, events, i) ==
    IF r.panicked \/ i > Len(events) THEN r
    ELSE TraceStateLoop(TraceStateEvent(r.ts, events[i]), events, i + 1)
TraceStateProcessEvents(ts, events) ==
    TraceStateLoop([panicked |-> FALSE, ts |-> ts], events, 1)

\* The thread whose ThreadStack process_events turns to for event e.
EventThread(ts, e) ==
    IF e.type \in {"ThreadSuspended", "ThreadResume", "ThreadExit"}
    THEN AsU32(e.data) ELSE ts.last_thread_id

\* History of whether the events so far are a properly nested sequence of
\* Call and Return: ok, and the methods of the calls not yet returned.
NestNew == [ok |-> TRUE, open |-> << >>]
NestEvent(nest, e) ==
    IF ~nest.ok THEN nest
    ELSE IF e.type = "Call" THEN [nest EXCEPT !.open = Append(@, e.data)]
    ELSE IF e.type = "Return" /\ nest.open # << >> /\ Last(nest.open) = e.data
    THEN [nest EXCEPT !.open = Front(@)]
    ELSE [ok |-> FALSE, open |-> << >>]
RECURSIVE NestLoop(_, _, _)
NestLoop(nest, events, i) ==
    IF i > Len(events) THEN nest ELSE NestLoop(NestEvent(nest, events[i]), events, i + 1)

\* The history before any event.  cut: for each thread whose last event was
\* a cut (GCStart, ThreadSuspended), the time of the cut, the ThreadStack
\* before it, and whether a ThreadExit of the thread then stood in
\* exited_threads; resumed: that entry, when the last step was the resume
\* (GCEnd, ThreadResume) of such a thread; resumed_tid: the payload of the
\* last ThreadResume, 0 before any.
TSLogNew ==
    [ n |-> 0, now |-> U64(0), panicked |-> FALSE, step |-> "new",
      event |-> Event("ThreadStart", U64(0), 0), before |-> TraceStateNew,
      cut |-> << >>, resumed |-> << >>, nest |-> NestNew, resumed_tid |-> 0 ]

\* The history after a round of process_events on event e that took
\* TraceState ts to the result r.
TSLogEvent(log, ts, e, r) ==
    LET tid == EventThread(ts, e)
        others == DOMAIN log.cut \ {tid}
        cuts == IF e.type \in {"GCStart", "ThreadSuspended"} THEN others \cup {tid}
                ELSE others
    IN  [ n |-> log.n + 1, now |-> e.timestamp, panicked |-> r.panicked,
          step |-> "event", event |-> e, before |-> ts,
          cut |-> [ t \in cuts |->
                      IF t = tid
                      THEN [ at |-> e.timestamp, st |-> thread_data(ts, tid),
                             exiting |-> \E i \in 1..Len(ts.exited_threads) :
                                            ts.exited_threads[i][1] = tid ]
                      ELSE log.cut[t] ],
          resumed |-> IF e.type \in {"GCEnd", "ThreadResume"} /\ tid \in DOMAIN log.cut
                      THEN << [ tid |-> tid, at |-> log.cut[tid].at, st |-> log.cut[tid].st,
                                exiting |-> log.cut[tid].exiting ] >>
                      ELSE << >>,
          nest |-> NestEvent(log.nest, e),
          resumed_tid |-> IF e.type = "ThreadResume" THEN AsU32(e.data)
                          ELSE log.resumed_tid ]

\* Event streams the TraceState has processed when the specification starts:
\* none, two nested calls that are open, or two nested calls closed by one
\* Return.
TSStarts ==
    { << >>,
      << Event("Call", U64(1), 1), Event("Call", U64(2), 1) >>,
      << Event("Call", U64(1), 1), Event("Call", U64(2), 2), Event("Return", U64(3), 1) >> }

InitTS ==
    /\ \E start \in TSStarts :
          /\ trace_state = TraceStateProcessEvents(TraceStateNew, start).ts
          /\ tslog = [TSLogNew EXCEPT
                         !.now = IF start = << >> THEN U64(0) ELSE Last(start).timestamp,
                         !.nest = NestLoop(NestNew, start, 1)]
    /\ RingOff /\ PipeOff /\ BatchOff /\ VecOff /\ UiOff /\ EncOff /\ FreeOff

\* One round of process_events, on an event whose timestamp is not below the
\* one before.  A panic ends the thread that owns the TraceState.
TSProcessEvent(kind, delta) ==
    /\ ~tslog.panicked
    /\ tslog.n < MaxTSEvents
    /\ LET e == Event(kind[1], U64Add(tslog.now, delta), kind[2])
           r == TraceStateEvent(trace_state, e)
       IN /\ trace_state' = r.ts
          /\ tslog' = TSLogEvent(tslog, trace_state, e, r)
    /\ UNCHANGED <<RingVars, PipeVars, BatchVars, VecVars, UiVars, EncVars, FreeVars>>

\* TraceState::sync.
TSSync ==
    /\ ~tslog.panicked
    /\ trace_state' = TraceStateSync(trace_state)
    /\ tslog' = [tslog EXCEPT !.step = "sync", !.before = trace_state, !.resumed = << >>]
    /\ UNCHANGED <<RingVars, PipeVars, BatchVars, VecVars, UiVars, EncVars, FreeVars>>

NextTS ==
    \/ \E kind \in TSKinds, delta \in TSDeltas : TSProcessEvent(kind, delta)
    \/ TSSync

SpecTS == InitTS /\ [][NextTS]_vars

(***************************************************************************)
(* Claims about TraceState and ThreadStack                                 *)
(***************************************************************************)

\* The ThreadStacks of the TraceState, as long as no step has panicked.
TSStacks ==
    IF tslog.panicked THEN {}
    ELSE { trace_state.thread_stacks[t] : t \in DOMAIN trace_state.thread_stacks }

\* The positions of the frames of a call stack that hold a slot.
TSBoxed(st) == { i \in 1..Len(st.call_stack) : st.call_stack[i].vertex_index # USIZE_MAX }

\* C7 as the spec states it: in every ThreadStack, |call_stack| <=
\* |used_slot| <= vertices.len().
C7_SlotCounts ==
    \A st \in TSStacks :
        /\ Len(st.call_stack) <= Cardinality(st.used_slot)
        /\ Cardinality(st.used_slot) <= Len(st.vertices)

\* C7, amended: in every ThreadStack the frames that hold a slot (those not
\* cut by GCStart or ThreadSuspended) hold different slots, all of them in
\* used_slot, and every index of used_slot is below vertices.len(); so
\* (frames holding a slot) <= |used_slot| <= vertices.len().
C7_BoxedSlotCounts ==
    \A st \in TSStacks :
        /\ \A i \in TSBoxed(st) : st.call_stack[i].vertex_index \in st.used_slot
        /\ \A i, j \in TSBoxed(st) :
              st.call_stack[i].vertex_index = st.call_stack[j].vertex_index => i = j
        /\ Cardinality(TSBoxed(st)) <= Cardinality(st.used_slot)
        /\ \A index \in st.used_slot : index < Len(st.vertices)
        /\ Cardinality(st.used_slot) <= Len(st.vertices)

\* A stack has more frames than used slots: frames cut long enough ago, whose
\* slots were handed back while a later call was entered; a sync has run.
C7_Witness ==
    /\ tslog.step = "sync"
    /\ \E st \in TSStacks :
          /\ Len(st.call_stack) > Cardinality(st.used_slot)
          /\ TSBoxed(st) # {}
          /\ st.used_slot # {}

\* The members of a sequence.
Range(seq) == { seq[i] : i \in 1..Len(seq) }

\* C8: in no ThreadStack is an index at once in used_slot and in free_slot,
\* and no index of free_slot is the slot of a frame or of a box that waits
\* in ready_for_free_slot.
C8_UsedFreeDisjoint ==
    \A st \in TSStacks :
        /\ st.used_slot \cap Range(st.free_slot) = {}
        /\ \A i \in TSBoxed(st) : st.call_stack[i].vertex_index \notin Range(st.free_slot)
        /\ \A i \in 1..Len(st.ready_for_free_slot) :
              st.ready_for_free_slot[i][1] \notin Range(st.free_slot)

\* An enter has just popped from free_slot an index that a sync had truncated
\* away, and appended its box instead, while free_slot and used_slot both
\* hold something.
C8_Witness ==
    /\ tslog.step = "event" /\ tslog.event.type = "Call" /\ ~tslog.panicked
    /\ \E t \in DOMAIN tslog.before.thread_stacks :
          LET b == tslog.before.thread_stacks[t]
              a == trace_state.thread_stacks[t]
          IN  /\ t = tslog.before.last_thread_id
              /\ b.free_slot # << >>
              /\ Head(b.free_slot) >= Len(b.vertices)
              /\ Len(a.free_slot) < Len(b.free_slot)
              /\ a.used_slot # {}

\* The open sentinel as a box holds it.
C9_Open == encode_time(U64_MAX)

\* C9: in every ThreadStack, a box whose end_time is not the open sentinel
\* (one closed by exit or cut_all) has start_time <= end_time, and the box of
\* every frame that holds a slot has end_time equal to the open sentinel.
C9_BoxTimes ==
    \A st \in TSStacks :
        /\ \A i \in 1..Len(st.vertices) :
              st.vertices[i].end_time # C9_Open =>
                  U64Le(decode_time(st.vertices[i].start_time),
                        decode_time(st.vertices[i].end_time))
        /\ \A i \in TSBoxed(st) :
              /\ st.call_stack[i].vertex_index < Len(st.vertices)
              /\ st.vertices[st.call_stack[i].vertex_index + 1].end_time = C9_Open

\* A stack holds a box closed by exit or cut_all after it was open for more
\* than the visibility window, next to a frame whose box is open.
C9_Witness ==
    \E st \in TSStacks :
        /\ TSBoxed(st) # {}
        /\ \E i \in 1..Len(st.vertices) :
              /\ st.vertices[i].end_time # C9_Open
              /\ U64Lt(U64Add(decode_time(st.vertices[i].start_time), VISIBLE_DURATION),
                       decode_time(st.vertices[i].end_time))

(***************************************************************************)
(* SpecBatch: one event stream, cut into batches, given to FastTrace       *)
(* (batch by batch, as the trace thread does), to SlowTrace::trace (the    *)
(* current batch, on the snapshot taken at its start) and, event by event, *)
(* to a TraceState                                                         *)
(***************************************************************************)

\* Bounds: the events of the stream, and the batches closed before the
\* current one.
MaxBatchEvents == 4
MaxCuts == 1

BatchKinds ==
    { <<"Call", 1>>, <<"Call", 2>>, <<"Return", 1>>, <<"GCStart", 0>>, <<"GCEnd", 0>>,
      <<"ThreadSuspended", 0>>, <<"ThreadSuspended", 1>>,
      <<"ThreadResume", 0>>, <<"ThreadResume", 1>>, <<"ThreadExit", 0>> }
BatchDeltas == { U64(1) }

\* The replay loop of SlowTrace::trace after the given events of a batch that
\* ends at end_time.
SlowReplay(start_time, fast_trace, events, end_time) ==
    SlowLoop(SlowStart(start_time, end_time, fast_trace), events, end_time, 1)

InitBatch ==
    /\ stream = [ n |-> 0, cuts |-> 0, now |-> U64(0), start_time |-> U64(0),
                  snapshot |-> FastTraceNew, events |-> << >>, resumed_tid |-> 0,
                  gc |-> FALSE, gc_at_cut |-> FALSE ]
    /\ fast = [ before |-> [panicked |-> FALSE, ft |-> FastTraceNew],
                after |-> [panicked |-> FALSE, ft |-> FastTraceNew] ]
    /\ slow = [ before |-> SlowStart(U64(0), U64(0), FastTraceNew),
                after |-> SlowStart(U64(0), U64(0), FastTraceNew) ]
    /\ trace_state = TraceStateNew
    /\ tslog = TSLogNew
    /\ RingOff /\ PipeOff /\ VecOff /\ UiOff /\ EncOff /\ FreeOff

\* The next event of the stream joins the current batch.  Each of the three
\* consumers handles it unless it has panicked before; slow is the replay of
\* the batch as it now stands, up to the event and through it.
BatchEvent(kind, delta) ==
    /\ stream.n < MaxBatchEvents
    /\ LET e == Event(kind[1], U64Add(stream.now, delta), kind[2])
           r == TraceStateEvent(trace_state, e)
       IN /\ stream' = [stream EXCEPT !.n = @ + 1, !.now = e.timestamp,
                                      !.events = Append(@, e),
                                      !.resumed_tid = IF e.type = "ThreadResume"
                                                      THEN AsU32(e.data) ELSE @,
                                      !.gc = IF e.type = "GCStart" THEN TRUE
                                             ELSE IF e.type = "GCEnd" THEN FALSE ELSE @]
          /\ fast' = [ before |-> fast.after,
                       after |-> IF fast.after.panicked THEN fast.after
                                 ELSE FastEvent(fast.after.ft, e) ]
          /\ slow' = [ before |-> SlowReplay(stream.start_time, stream.snapshot,
                                             stream.events, e.timestamp),
                       after |-> SlowReplay(stream.start_time, stream.snapshot,
                                            Append(stream.events, e), e.timestamp) ]
          /\ IF tslog.panicked
             THEN /\ trace_state' = trace_state
                  /\ tslog' = [tslog EXCEPT !.step = "none", !.resumed = << >>]
             ELSE /\ trace_state' = r.ts
                  /\ tslog' = TSLogEvent(tslog, trace_state, e, r)
    /\ UNCHANGED <<RingVars, PipeVars, VecVars, UiVars, EncVars, FreeVars>>

\* The batch ends here: the trace thread's FastTrace, having processed it,
\* is the snapshot of the next batch, which starts at this one's end time.
BatchCut ==
    /\ stream.cuts < MaxCuts
    /\ stream.events # << >>
    /\ ~fast.after.panicked
    /\ LET snapshot == FastProcessEvents(stream.snapshot, stream.events).ft
           start == SlowStart(stream.now, stream.now, snapshot)
       IN /\ stream' = [stream EXCEPT !.cuts = @ + 1, !.start_time = stream.now,
                                      !.snapshot = snapshot, !.events = << >>,
                                      !.gc_at_cut = stream.gc]
          /\ fast' = [ before |-> [panicked |-> FALSE, ft |-> snapshot],
                       after |-> [panicked |-> FALSE, ft |-> [snapshot EXCEPT !.in_gc = FALSE]] ]
          /\ slow' = [ before |-> start, after |-> start ]
          /\ tslog' = [tslog EXCEPT !.step = "none", !.resumed = << >>]
    /\ UNCHANGED <<RingVars, PipeVars, VecVars, UiVars, EncVars, FreeVars, trace_state>>

NextBatch ==
    \/ \E kind \in BatchKinds, delta \in BatchDeltas : BatchEvent(kind, delta)
    \/ BatchCut

SpecBatch == InitBatch /\ [][NextBatch]_vars

(***************************************************************************)
(* Claims about Return                                                     *)
(***************************************************************************)

\* The number of frames a Return of method_id leaves on a stack of the given
\* method ids: those below the topmost frame of that method, none if there
\* is no such frame.
C10_Kept(ids, method_id) ==
    LET at == { i \in 1..Len(ids) : ids[i] = method_id }
    IN  IF at = {} THEN 0 ELSE SetMax(at) - 1

\* What C10 asks of a stack of frames with boxes: before and after are the
\* call stack, vertices the boxes after the Return e.
C10_Popped(before, after, vertices, e) ==
    LET kept == C10_Kept([ i \in 1..Len(before) |-> before[i].method_id ], e.data)
    IN  /\ after = SubSeq(before, 1, kept)
        /\ \A i \in (kept + 1)..Len(before) :
              before[i].vertex_index # USIZE_MAX =>
                  /\ before[i].vertex_index < Len(vertices)
                  /\ vertices[before[i].vertex_index + 1].end_time =
                         encode_time(e.timestamp)

\* The last event of the stream, when it is a Return in the current batch.
C10_IsReturn == stream.events # << >> /\ Last(stream.events).type = "Return"

\* C10, FastTrace: the Return left the current thread's stack of method ids
\* cut down to the frames below the topmost frame of its method.
C10_Fast ==
    (/\ ~fast.before.panicked
     /\ fast.before.ft.current_thread < Len(fast.before.ft.thread_stacks))
    => LET cur == fast.before.ft.current_thread + 1
           before == fast.before.ft.thread_stacks[cur].stack
       IN  /\ ~fast.after.panicked
           /\ fast.after.ft.thread_stacks[cur].stack =
                  SubSeq(before, 1, C10_Kept(before, Last(stream.events).data))

\* C10, SlowTrace: the Return was replayed, popped the frames from the top
\* down to the topmost frame of its method, and ended their boxes at its
\* timestamp.
C10_Slow ==
    ~slow.before.panicked
    => /\ ~slow.after.panicked
       /\ C10_Popped(current_stack(slow.before), current_stack(slow.after),
                     current_vertices(slow.after), Last(stream.events))

\* C10, ThreadStack.exit: the same of the call stack and boxes of the thread
\* the TraceState holds as current.
C10_Exit ==
    tslog.step = "event"
    => LET tid == tslog.before.last_thread_id
       IN  /\ ~tslog.panicked
           /\ C10_Popped(thread_data(tslog.before, tid).call_stack,
                         trace_state.thread_stacks[tid].call_stack,
                         trace_state.thread_stacks[tid].vertices,
                         Last(stream.events))

\* C10: in FastTrace, SlowTrace and ThreadStack.exit alike, a Return of
\* method m pops the frames from the top of the current thread's stack down
\* to and including the topmost frame of m, the whole stack when there is
\* none, leaves the frames below unchanged, and every popped frame's box ends
\* at the Return's timestamp.
C10_ReturnPops == C10_IsReturn => (C10_Fast /\ C10_Slow /\ C10_Exit)

(***************************************************************************)
(* Claims about cut and resume                                             *)
(***************************************************************************)

\* What C11 asks of a ThreadStack: before is the stack before the cut at t1,
\* after the one after the resume at t2.  Every frame holds a new slot with
\* a box of its method and depth that starts at t2 and is open; the box it
\* held before is still there, now ending at t1; no other box was made or
\* changed.
C11_TwoBoxes(before, after, t1, t2) ==
    LET n == Len(before.call_stack)
        v(i) == before.call_stack[i].vertex_index
        w(i) == after.call_stack[i].vertex_index
    IN  /\ Len(after.call_stack) = n
        /\ \A i \in 1..n :
              /\ after.call_stack[i].method_id = before.call_stack[i].method_id
              /\ v(i) < Len(before.vertices) /\ v(i) < Len(after.vertices)
              /\ w(i) < Len(after.vertices)
              /\ after.vertices[v(i) + 1] =
                     [before.vertices[v(i) + 1] EXCEPT !.end_time = encode_time(t1)]
              /\ after.vertices[w(i) + 1] =
                     CallBox(t2, U64_MAX, AsU32(before.call_stack[i].method_id), i - 1)
              /\ after.vertices[v(i) + 1].method_id = after.vertices[w(i) + 1].method_id
              /\ after.vertices[v(i) + 1].depth = after.vertices[w(i) + 1].depth
        /\ \A i, j \in 1..n : v(i) # w(j) /\ (w(i) = w(j) => i = j)
        /\ \A k \in 1..Len(after.vertices) :
              (\A i \in 1..n : k - 1 # v(i) /\ k - 1 # w(i)) =>
                  k <= Len(before.vertices) /\ after.vertices[k] = before.vertices[k]

\* The ThreadStack just resumed, or a new one if the TraceState has none.
C11_After == thread_data(trace_state, tslog.resumed[1].tid)

C12_IsResume ==
    /\ stream.events # << >>
    /\ Last(stream.events).type \in {"GCEnd", "ThreadResume"}
    /\ ~slow.before.panicked

\* The boxes the resumed thread had before the resume was replayed.
C12_BoxesBefore ==
    LET e == Last(stream.events)
        r == BinarySearch(slow.before.call_stack, AsU32(e.data))
    IN  IF e.type = "GCEnd" THEN current_vertices(slow.before)
        ELSE IF r.found THEN slow.before.call_stack[r.index + 1].vertices
        ELSE << >>

\* Every frame of the current stack holds the index of a box made by the
\* resume: one of the frame's method and depth that starts at the event's
\* timestamp and ends at the batch's end time.
C12_Fresh ==
    LET e == Last(stream.events)
        stack == current_stack(slow.after)
        vertices == current_vertices(slow.after)
    IN  /\ ~slow.after.panicked
        /\ \A i \in 1..Len(stack) :
              /\ stack[i].vertex_index >= Len(C12_BoxesBefore)
              /\ stack[i].vertex_index < Len(vertices)
              /\ vertices[stack[i].vertex_index + 1] =
                     CallBox(e.timestamp, e.timestamp, AsU32(stack[i].method_id), i - 1)

\* The batch of the spec's scenario.
C12_Batch ==
    << Event("ThreadResume", U64(100), 5), Event("Call", U64(110), 9),
       Event("ThreadSuspended", U64(120), 5), Event("ThreadResume", U64(130), 5),
       Event("Return", U64(140), 9) >>

\* SlowTrace::trace on that batch gives thread 5 exactly the boxes 110..120
\* and 130..140 of method 9 at depth 0.
C12_Scenario ==
    LET r == SlowTraceTrace(U64(0), FastTraceNew, C12_Batch)
        at == { i \in 1..Len(r.data) : r.data[i].tid = 5 }
    IN  /\ ~r.panicked
        /\ \E i \in at :
              r.data[i].vertices = << CallBox(U64(110), U64(120), 9, 0),
                                      CallBox(U64(130), U64(140), 9, 0) >>

\* C12: in SlowTrace::trace a GCEnd, and equally a ThreadResume, gives every
\* frame of the (resumed) current thread's stack a fresh box that starts at
\* the event's timestamp, and records its index in the frame; so the spec's
\* batch yields for thread 5 exactly the boxes 110..120 and 130..140.
C12_ResumeEmits == C12_IsResume => (C12_Fresh /\ C12_Scenario)

(***************************************************************************)
(* Claims about balanced streams, visibility and slot reuse                *)
(***************************************************************************)

\* C13: when the events processed so far are a properly nested sequence of
\* Call and Return on one thread in which every call has returned, that
\* thread's call_stack is empty and every box of its vertices has an
\* end_time that is not the open sentinel and stands for a time below it.
C13_BalancedClosed ==
    (~tslog.panicked /\ tslog.nest.ok /\ tslog.nest.open = << >>) =>
        \A st \in TSStacks :
            /\ st.call_stack = << >>
            /\ \A i \in 1..Len(st.vertices) :
                  /\ st.vertices[i].end_time # C9_Open
                  /\ U64Lt(decode_time(st.vertices[i].end_time), decode_time(C9_Open))

\* Two nested calls have returned in order, a sync has run, and both boxes
\* are there.
C13_Witness ==
    /\ ~tslog.panicked /\ tslog.nest.ok /\ tslog.nest.open = << >>
    /\ tslog.step = "sync" /\ tslog.n >= 2
    /\ \E st \in TSStacks : Len(st.vertices) >= 2

\* The boxes of a ThreadStack at the given depth that are open or were
\* closed at a time t with t + VISIBLE_DURATION >= now.  A box that is no
\* longer in vertices was overwritten or truncated, which happens only to
\* boxes closed earlier than that.
C14_Visible(st, depth, now) ==
    { i \in 1..Len(st.vertices) :
        /\ st.vertices[i].depth = depth
        /\ \/ st.vertices[i].end_time = C9_Open
           \/ U64Le(now, U64Add(decode_time(st.vertices[i].end_time), VISIBLE_DURATION)) }

\* C14: right after TraceState::sync, with now the TraceState's base_time,
\* visible_call_depth of every ThreadStack counts a depth at most as many
\* times as there are boxes of that depth that are open or were closed no
\* earlier than now - VISIBLE_DURATION.
C14_DepthCounts ==
    tslog.step = "sync" =>
        \A st \in TSStacks :
            \A depth \in DOMAIN st.visible_call_depth :
                st.visible_call_depth[depth] <=
                    Cardinality(C14_Visible(st, depth, trace_state.base_time))

\* The sync has just taken counts out of a visible_call_depth that still
\* counts a depth twice: for a box closed within the window and an open one.
C14_Witness ==
    /\ tslog.step = "sync" /\ ~tslog.panicked
    /\ \E t \in DOMAIN trace_state.thread_stacks \cap DOMAIN tslog.before.thread_stacks :
          LET a == trace_state.thread_stacks[t]
              b == tslog.before.thread_stacks[t]
          IN  /\ Len(a.free_depth) < Len(b.free_depth)
              /\ \E depth \in DOMAIN a.visible_call_depth : a.visible_call_depth[depth] = 2

\* C15: right after TraceState::sync, with now the TraceState's base_time,
\* the slot of every frame closed at a time T with now > T +
\* VISIBLE_DURATION, if no later frame has taken it, is in free_slot of its
\* ThreadStack: none is still waiting in ready_for_free_slot.
C15_ClosedSlotsFree ==
    tslog.step = "sync" =>
        \A st \in TSStacks :
            \A i \in 1..Len(st.ready_for_free_slot) :
                U64Lt(U64Add(st.ready_for_free_slot[i][2], VISIBLE_DURATION),
                      trace_state.base_time)
                => st.ready_for_free_slot[i][1] \in Range(st.free_slot)

(***************************************************************************)
(* Claims about which thread an event acts on                              *)
(***************************************************************************)

\* The last event of the stream is a ThreadSuspended; its payload.
C23_IsSuspend == stream.events # << >> /\ Last(stream.events).type = "ThreadSuspended"
C23_Tid == AsU32(Last(stream.events).data)

\* The frames of a stack are all cut, and the boxes they held before end at
\* the event's timestamp.
C23_Closed(before, after, vertices) ==
    /\ Len(after) = Len(before)
    /\ \A i \in 1..Len(before) :
          /\ after[i].vertex_index = USIZE_MAX
          /\ before[i].vertex_index # USIZE_MAX =>
                /\ before[i].vertex_index < Len(vertices)
                /\ vertices[before[i].vertex_index + 1].end_time =
                       encode_time(Last(stream.events).timestamp)

\* C23 in SlowTrace::trace: the work item of thread tid has its open boxes
\* closed, every other work item is as it was.
C23_Slow ==
    ~slow.before.panicked
    => /\ ~slow.after.panicked
       /\ Len(slow.after.call_stack) = Len(slow.before.call_stack)
       /\ \A i \in 1..Len(slow.before.call_stack) :
             IF slow.before.call_stack[i].tid = C23_Tid
             THEN C23_Closed(slow.before.call_stack[i].stack, slow.after.call_stack[i].stack,
                             slow.after.call_stack[i].vertices)
             ELSE slow.after.call_stack[i] = slow.before.call_stack[i]

\* C23 in TraceState::process_events: the same of the ThreadStacks.
C23_TraceState ==
    tslog.step = "event"
    => /\ ~tslog.panicked
       /\ \A t \in DOMAIN tslog.before.thread_stacks :
             IF t = C23_Tid
             THEN C23_Closed(tslog.before.thread_stacks[t].call_stack,
                             trace_state.thread_stacks[t].call_stack,
                             trace_state.thread_stacks[t].vertices)
             ELSE trace_state.thread_stacks[t] = tslog.before.thread_stacks[t]

\* C23: a ThreadSuspended event with payload tid closes the open boxes of
\* thread tid and only those; the stacks and boxes of every other thread,
\* the current one included when tid is not it, are unchanged, in
\* TraceState::process_events and in SlowTrace::trace alike.
C23_SuspendCutsOnlyTid == C23_IsSuspend => (C23_Slow /\ C23_TraceState)

\* The last event of the stream is a Call or a Return that FastTrace got to.
C28_IsCallOrReturn ==
    /\ stream.events # << >>
    /\ Last(stream.events).type \in {"Call", "Return"}
    /\ ~fast.before.panicked

\* C28: whenever FastTrace::process_events handles a Call or a Return,
\* current_thread is an index into thread_stacks and the entry there is that
\* of the thread of the last ThreadResume, thread 0 before any ThreadResume;
\* no ThreadExit and no ThreadSuspended before it leaves current_thread out
\* of range or at another thread's entry.
C28_CurrentThreadValid ==
    C28_IsCallOrReturn
    => /\ ~fast.after.panicked
       /\ fast.before.ft.current_thread < Len(fast.before.ft.thread_stacks)
       /\ fast.before.ft.thread_stacks[fast.before.ft.current_thread + 1].tid =
              stream.resumed_tid

\* C29: SlowTrace::trace returns a result for every FastTrace snapshot and
\* every non-empty batch with non-decreasing timestamps: no Return, GCStart
\* or ThreadSuspended indexes a vertex list with the NONE index usize::MAX,
\* be the frame seeded without a box, already cut, or of a thread just
\* switched to.
C29_TraceReturns ==
    stream.events # << >> => ~slow.after.panicked

\* The replay of the first k events of the current batch, and the boxes,
\* as <<tid, index>>, that the frames of a replay state hold.
C30_Replay(k) ==
    SlowReplay(stream.start_time, stream.snapshot, SubSeq(stream.events, 1, k), stream.now)
C30_Held(s) ==
    UNION { { <<s.call_stack[i].tid, s.call_stack[i].stack[d].vertex_index>> :
                d \in 1..Len(s.call_stack[i].stack) } : i \in 1..Len(s.call_stack) }

\* The events of the batch that closed the box <<tid, index>>: a Return,
\* GCStart or ThreadSuspended before which a frame held the box and after
\* which no frame holds it.
C30_ClosedBy(box) ==
    { k \in 1..Len(stream.events) :
        /\ stream.events[k].type \in {"Return", "GCStart", "ThreadSuspended"}
        /\ box \in C30_Held(C30_Replay(k - 1))
        /\ box \notin C30_Held(C30_Replay(k)) }

\* C30: in every SlowTrace result a CallBox closed inside the batch by a
\* Return, GCStart or ThreadSuspended ends at that event's timestamp, every
\* other CallBox ends at the batch's end_time, the timestamp of the last
\* event, and every CallBox has start <= end.
C30_ResultBoxTimes ==
    (stream.events # << >> /\ ~slow.after.panicked)
    => \A i \in 1..Len(slow.after.call_stack) :
          LET item == slow.after.call_stack[i] IN
          \A v \in 1..Len(item.vertices) :
             LET box == item.vertices[v]
                 closed == C30_ClosedBy(<<item.tid, v - 1>>)
             IN  /\ U64Le(decode_time(box.start_time), decode_time(box.end_time))
                 /\ IF closed = {} THEN box.end_time = encode_time(stream.now)
                    ELSE \A k \in closed :
                            box.end_time = encode_time(stream.events[k].timestamp)

\* C30 witness: a result with a box closed by a Return before the last event
\* of the batch and a box that a frame still holds.
C30_Witness ==
    /\ stream.events # << >> /\ ~slow.after.panicked
    /\ \E i \in 1..Len(slow.after.call_stack) :
          LET item == slow.after.call_stack[i] IN
          /\ \E v \in 1..Len(item.vertices) :
                \E k \in C30_ClosedBy(<<item.tid, v - 1>>) :
                   /\ stream.events[k].type = "Return"
                   /\ k < Len(stream.events)
                   /\ item.vertices[v].end_time # encode_time(stream.now)
          /\ \E v \in 1..Len(item.vertices) : <<item.tid, v - 1>> \in C30_Held(slow.after)

\* The current batch started inside a GC: a GCStart of an earlier batch had
\* no GCEnd after it when the batch was cut (stream.gc follows GCStart and
\* GCEnd through the whole stream, gc_at_cut is its value at the cut).
C31_StartedInGc == stream.cuts > 0 /\ stream.gc_at_cut

\* No box of the replay starts at the batch's start_time.
C31_NoSeedBox ==
    \A i \in 1..Len(slow.after.call_stack) :
       \A v \in 1..Len(slow.after.call_stack[i].vertices) :
          slow.after.call_stack[i].vertices[v].start_time # encode_time(stream.start_time)

\* The last event is the first GCEnd of the batch, and every frame of the
\* current stack has exactly one box that starts at it.
C31_FirstGcEnd ==
    /\ stream.events # << >> /\ Last(stream.events).type = "GCEnd"
    /\ \A k \in 1..(Len(stream.events) - 1) : stream.events[k].type # "GCEnd"
C31_OneBoxEach ==
    LET stack == current_stack(slow.after)
        vertices == current_vertices(slow.after)
    IN  \A d \in 1..Len(stack) :
           Cardinality({ v \in 1..Len(vertices) :
                           /\ vertices[v].start_time = encode_time(stream.now)
                           /\ vertices[v].depth = d - 1
                           /\ vertices[v].method_id = AsU32(stack[d].method_id) }) = 1

\* C31: when a batch starts while a GCStart of an earlier batch has had no
\* GCEnd, whatever followed that GCStart, SlowTrace::trace gives the snapshot
\* frames no box starting at start_time, and exactly one box each starting
\* at the GCEnd.
C31_NoBoxInsideGc ==
    C31_StartedInGc
    => /\ C31_NoSeedBox
       /\ (C31_FirstGcEnd /\ ~slow.after.panicked) => C31_OneBoxEach

\* The last round of process_events ran cut_all (GCStart, ThreadSuspended)
\* on a ThreadStack that had frames, all of them cut already.
C32_CutOfCutStack ==
    /\ tslog.step = "event"
    /\ tslog.event.type \in {"GCStart", "ThreadSuspended"}
    /\ LET st == thread_data(tslog.before, EventThread(tslog.before, tslog.event))
       IN  /\ st.call_stack # << >>
           /\ \A d \in 1..Len(st.call_stack) : st.call_stack[d].vertex_index = USIZE_MAX

\* C32: cut_all acts only on open frames; on a stack whose frames were all
\* cut and not resumed it changes no vertex, enqueues no slot, records no
\* depth and does not fail.
C32_CutAllSkipsCutFrames ==
    C32_CutOfCutStack
    => LET tid == EventThread(tslog.before, tslog.event)
           st == thread_data(tslog.before, tid)
       IN  /\ ~tslog.panicked
           /\ tid \in DOMAIN trace_state.thread_stacks
           /\ trace_state.thread_stacks[tid].vertices = st.vertices
           /\ trace_state.thread_stacks[tid].ready_for_free_slot = st.ready_for_free_slot
           /\ trace_state.thread_stacks[tid].free_depth = st.free_depth
           /\ trace_state.thread_stacks[tid].call_stack = st.call_stack

\* C33: in every ThreadStack each slot of used_slot is the slot of exactly
\* one frame or waits in ready_for_free_slot, and every box that is open
\* (end_time the sentinel u64::MAX) is the box of a frame; also after a
\* resume_all on frames that were not cut (GCEnd without GCStart,
\* ThreadResume of a thread not suspended).
C33_SlotsAccounted ==
    \A st \in TSStacks :
        /\ \A index \in st.used_slot :
              \/ Cardinality({ i \in TSBoxed(st) : st.call_stack[i].vertex_index = index }) = 1
              \/ \E i \in 1..Len(st.ready_for_free_slot) : st.ready_for_free_slot[i][1] = index
        /\ \A v \in 1..Len(st.vertices) :
              st.vertices[v].end_time = C9_Open
              => \E i \in TSBoxed(st) : st.call_stack[i].vertex_index = v - 1

\* The last round of process_events allocated slots: enter (Call) or
\* resume_all (GCEnd, ThreadResume).  The thread, its ThreadStack before and
\* after, and the slots handed out, in the order of the allocations.
C34_Allocates ==
    /\ tslog.step = "event" /\ ~tslog.panicked
    /\ tslog.event.type \in {"Call", "GCEnd", "ThreadResume"}
C34_Tid == EventThread(tslog.before, tslog.event)
C34_Before == thread_data(tslog.before, C34_Tid)
C34_After == trace_state.thread_stacks[C34_Tid]
C34_Slots ==
    IF tslog.event.type = "Call" THEN << Last(C34_After.call_stack).vertex_index >>
    ELSE [ d \in 1..Len(C34_After.call_stack) |-> C34_After.call_stack[d].vertex_index ]

\* The slots of a ThreadStack that may be handed out again at time at: those
\* of the vector whose box was closed at a time T with
\* T + VISIBLE_DURATION < at and that no frame holds.
C34_Eligible(st, at) ==
    { index \in 0..(Len(st.vertices) - 1) :
        /\ st.vertices[index + 1].end_time # C9_Open
        /\ U64Lt(U64Add(decode_time(st.vertices[index + 1].end_time), VISIBLE_DURATION), at)
        /\ \A i \in TSBoxed(st) : st.call_stack[i].vertex_index # index }

\* C34: enter and resume_all hand out a used slot only if its last box was
\* closed at a time T with T + VISIBLE_DURATION < the event's timestamp;
\* they take the free slots below vertices.len() from the lowest index up,
\* and append new slots only when none of those is left.
C34_ReuseAfterWindow ==
    C34_Allocates
    => LET free == C34_Eligible(C34_Before, tslog.event.timestamp)
           len == Len(C34_Before.vertices)
       IN  /\ \A k \in 1..Len(C34_Slots) :
                 C34_Slots[k] < len => C34_Slots[k] \in free
           /\ \A k \in 1..Len(C34_Slots) :
                 IF k <= Cardinality(free)
                 THEN /\ C34_Slots[k] \in free
                      /\ Cardinality({ x \in free : x < C34_Slots[k] }) = k - 1
                 ELSE C34_Slots[k] = len + (k - Cardinality(free)) - 1

\* C34 witness: a Call took the lower of two free slots, each handed back
\* after its window, instead of appending.
C34_Witness ==
    /\ C34_Allocates /\ tslog.event.type = "Call"
    /\ Cardinality(C34_Eligible(C34_Before, tslog.event.timestamp)) >= 2
    /\ C34_Slots[1] < Len(C34_Before.vertices)

\* The last round of process_events handled a Call, Return, GCStart or GCEnd.
C24_IsFrameEvent ==
    /\ tslog.step = "event"
    /\ tslog.event.type \in {"Call", "Return", "GCStart", "GCEnd"}

\* C24: in TraceState::process_events a Call, Return, GCStart or GCEnd acts
\* on the ThreadStack of the thread of the last ThreadResume, thread 0 before
\* any ThreadResume, which exists afterwards; the ThreadStack of every other
\* thread is as it was and no other thread appears or disappears.
C24_FrameEventsOnResumedThread ==
    C24_IsFrameEvent
    => /\ tslog.before.last_thread_id = tslog.resumed_tid
       /\ tslog.resumed_tid \in DOMAIN trace_state.thread_stacks
       /\ DOMAIN trace_state.thread_stacks =
              DOMAIN tslog.before.thread_stacks \cup {tslog.resumed_tid}
       /\ \A t \in DOMAIN tslog.before.thread_stacks \ {tslog.resumed_tid} :
              trace_state.thread_stacks[t] = tslog.before.thread_stacks[t]
       /\ trace_state.last_thread_id = tslog.before.last_thread_id
       /\ trace_state.exited_threads = tslog.before.exited_threads

\* C24 witness: a Call after ThreadResume 1 entered a frame on thread 1
\* while thread 0 held open frames.
C24_Witness ==
    /\ C24_IsFrameEvent /\ ~tslog.panicked
    /\ tslog.event.type = "Call"
    /\ tslog.resumed_tid = 1
    /\ 0 \in DOMAIN tslog.before.thread_stacks
    /\ tslog.before.thread_stacks[0].call_stack # << >>
    /\ Len(trace_state.thread_stacks[1].call_stack) =
           Len(thread_data(tslog.before, 1).call_stack) + 1

(***************************************************************************)
(* GpuSyncVec (src/src/renderer/trace_state/gpu_sync_vec.rs)               *)
(*                                                                         *)
(* A vec is [data, dirty_range, gpu_buffer, max_buffer_size, panic].       *)
(* Elements are small numbers standing for the bytes of a CallBox; a GPU   *)
(* buffer is [size, mem]: its size in bytes and the elements it holds,     *)
(* 0 where nothing was written (wgpu buffers start zeroed).  Indices,      *)
(* offsets and block numbers are 0-based as in the code; panic names the   *)
(* place where the call panicked, "" when it did not.  The device has no   *)
(* error handler of its own (src/src/main.rs requests the device and       *)
(* installs none), so a validation error of wgpu panics.                   *)
(***************************************************************************)
\* size_of::<CallBox>(): six u32 fields, repr(C).
SizeOfT == 24

DivCeil(a, b) == (a + b - 1) \div b

RECURSIVE PowerOfTwoFrom(_, _)
PowerOfTwoFrom(p, n) == IF p >= n THEN p ELSE PowerOfTwoFrom(2 * p, n)

\* u64::next_power_of_two.
next_power_of_two(n) == PowerOfTwoFrom(1, n)

\* Device::create_buffer: a zeroed buffer of the given size in bytes.
create_buffer(size) == [size |-> size, mem |-> [i \in 1..(size \div SizeOfT) |-> 0]]

\* The empty range usize::MAX..0.
CleanRange == [start |-> USIZE_MAX, end |-> 0]

filled_buffer_len(v) == v.max_buffer_size \div SizeOfT
single_buffer_size_max(v) == filled_buffer_len(v) * SizeOfT

GpuSyncVecNew(max_buffer_size) ==
    [ data |-> << >>,
      dirty_range |-> CleanRange,
      gpu_buffer |-> << create_buffer(Min(max_buffer_size \div SizeOfT, 256) * SizeOfT) >>,
      max_buffer_size |-> max_buffer_size,
      panic |-> "" ]

\* A truncate that drops the elements and leaves dirty_range as it was.
M_TruncateKeepsEnd(v, len) ==
    IF len < Len(v.data) THEN [v EXCEPT !.data = SubSeq(@, 1, len)] ELSE v

\* Every assignment marks the whole vector dirty.
M_MarkDirtyAll(v, index) ==
    [v EXCEPT !.dirty_range = [start |-> 0, end |-> Len(v.data)]]
\* The two assignments that widen dirty_range to take index in.
MarkDirty(v, index) ==
    [v EXCEPT !.dirty_range = [start |-> Min(@.start, index), end |-> Max(@.end, index + 1)]]

\* IndexMut::index_mut, followed by the caller's assignment through the
\* reference it returns.  self.data[index] panics when index is out of range.
index_mut(v, index, value) ==
    IF index >= Len(v.data) THEN [v EXCEPT !.panic = "index_mut"]
    ELSE MarkDirty([v EXCEPT !.data[index + 1] = value], index)

\* GpuSyncVec::get_mut, followed by the caller's assignment when it got Some.
get_mut(v, index, value) ==
    IF index >= Len(v.data) THEN v
    ELSE MarkDirty([v EXCEPT !.data[index + 1] = value], index)

push(v, value) == MarkDirty([v EXCEPT !.data = Append(@, value)], Len(v.data))

truncate(v, len) ==
    IF len < Len(v.data)
    THEN [v EXCEPT !.data = SubSeq(@, 1, len), !.dirty_range.end = Min(@, len)]
    ELSE v

\* n new buffers of single_buffer_size_max bytes at the end of the list.
RECURSIVE PushBuffers(_, _, _)
PushBuffers(buffers, n, size) ==
    IF n <= 0 THEN buffers ELSE PushBuffers(Append(buffers, create_buffer(size)), n - 1, size)

\* The first half of sync: the buffer list is made to fit.  A buffer larger
\* than the device's max_buffer_size is a validation error.
grow(v) ==
    IF Len(v.gpu_buffer) = 1
    THEN LET gpu_buffer == v.gpu_buffer[1]
             required_size == Len(v.data) * SizeOfT
         IN IF required_size > gpu_buffer.size
            THEN IF required_size <= v.max_buffer_size
                 THEN IF next_power_of_two(required_size) > v.max_buffer_size
                      THEN [v EXCEPT !.panic = "create_buffer"]
                      ELSE [v EXCEPT !.gpu_buffer = << create_buffer(next_power_of_two(required_size)) >>,
                                     !.dirty_range = [start |-> 0, end |-> Len(v.data)]]
                 ELSE LET required_buffer_count == DivCeil(required_size, single_buffer_size_max(v))
                          kept == IF gpu_buffer.size < single_buffer_size_max(v)
                                  THEN << >> ELSE v.gpu_buffer
                      IN [v EXCEPT !.gpu_buffer = PushBuffers(kept, required_buffer_count - 1,
                                                              single_buffer_size_max(v)),
                                   !.dirty_range = [start |-> 0, end |-> Len(v.data)]]
            ELSE v
    ELSE LET new_buffer_len == DivCeil(Len(v.data), filled_buffer_len(v))
         IN [v EXCEPT !.gpu_buffer = PushBuffers(@, new_buffer_len - Len(@),
                                                 single_buffer_size_max(v))]

\* One Queue::write_buffer call: the host elements from..to-1 go to the
\* buffer at the given element offset.
Write(buffer, offset, from, to) == [buffer |-> buffer, offset |-> offset, from |-> from, to |-> to]

\* The second half of sync: the write_buffer calls it makes, in order, or the
\* place where it panics before making any.
uploads(v) ==
    LET dirty == v.dirty_range
        len == Len(v.data)
    IN IF Len(v.gpu_buffer) = 1
       THEN IF dirty.end > len
            THEN [panic |-> "slice", writes |-> << >>]
            ELSE [panic |-> "", writes |-> << Write(0, dirty.start, dirty.start, dirty.end) >>]
       ELSE LET per == filled_buffer_len(v)
                start_block == dirty.start \div per
                start_item == dirty.start % per
                end_block == dirty.end \div per
                end_item == dirty.end % per
            IN IF end_block + 1 > Len(v.gpu_buffer)
               THEN [panic |-> "gpu_buffer slice", writes |-> << >>]
               ELSE IF start_block = end_block
               THEN IF dirty.end > len
                    THEN [panic |-> "slice", writes |-> << >>]
                    ELSE [panic |-> "",
                          writes |-> << Write(start_block, start_item, dirty.start, dirty.end) >>]
               ELSE LET base == start_block * per
                        lim == Min((end_block + 1) * per, len)
                        chunks == DivCeil(lim - base, per)
                        chunk(k) == [from |-> base + k * per, to |-> Min(base + (k + 1) * per, lim)]
                        mids == Min(end_block - start_block - 1, chunks - 2)
                    IN IF base > lim
                       THEN [panic |-> "slice", writes |-> << >>]
                       ELSE IF chunks < 2
                       THEN [panic |-> "unwrap", writes |-> << >>]
                       ELSE IF end_item > chunk(chunks - 1).to - chunk(chunks - 1).from
                       THEN [panic |-> "slice", writes |-> << >>]
                       ELSE [panic |-> "",
                             writes |->
                                << Write(start_block, start_item, base + start_item, chunk(0).to) >>
                                \o (IF end_item > 0
                                    THEN << Write(end_block, 0, chunk(chunks - 1).from,
                                                  chunk(chunks - 1).from + end_item) >>
                                    ELSE << >>)
                                \o [j \in 1..mids |->
                                       Write(start_block + j, 0, chunk(j).from, chunk(j).to)]]

\* Queue::write_buffer: the bytes land in the buffer, unless they do not fit
\* in it, which is a validation error and leaves the buffer as it was.
write_buffer(v, w) ==
    LET buffer == v.gpu_buffer[w.buffer + 1]
        n == w.to - w.from
    IN IF (w.offset + n) * SizeOfT > buffer.size
       THEN [v EXCEPT !.panic = "write_buffer"]
       ELSE [v EXCEPT !.gpu_buffer[w.buffer + 1].mem =
                          [i \in 1..Len(@) |->
                              IF i > w.offset /\ i <= w.offset + n
                              THEN v.data[w.from + (i - w.offset)]
                              ELSE @[i]]]

RECURSIVE WriteAll(_, _, _)
WriteAll(v, writes, i) ==
    IF i > Len(writes) \/ v.panic # "" THEN v
    ELSE WriteAll(write_buffer(v, writes[i]), writes, i + 1)

\* GpuSyncVec::sync.
sync(v) ==
    IF v.dirty_range.start >= v.dirty_range.end THEN v
    ELSE LET g == grow(v)
             u == uploads(g)
             w == WriteAll(g, u.writes, 1)
         IN IF g.panic # "" THEN g
            ELSE IF u.panic # "" THEN [g EXCEPT !.panic = u.panic]
            ELSE IF w.panic # "" THEN w
            ELSE [w EXCEPT !.dirty_range = CleanRange]

\* The host indices whose bytes one sync call hands to write_buffer.
Uploaded(v) ==
    IF v.dirty_range.start >= v.dirty_range.end \/ grow(v).panic # "" THEN {}
    ELSE LET writes == uploads(grow(v)).writes
         IN UNION { w.from .. (w.to - 1) : w \in Range(writes) }

\* Every vector is read as if it had one buffer.
M_ReadBuffersSole(v) == [panic |-> "", calls |-> << <<0, Len(v.data)>> >>]

\* GpuSyncVec::read_buffers: the calls of the callback, as <<buffer, count>>
\* with the buffer's place in the list, and whether indexing the list panicked.
read_buffers(v) ==
    IF Len(v.gpu_buffer) = 1
    THEN [panic |-> "", calls |-> << <<0, Len(v.data)>> >>]
    ELSE LET per == v.max_buffer_size \div SizeOfT
             num_buffers == Len(v.data) \div per
             buffer_tail == Len(v.data) % per
             full == [i \in 1..Min(num_buffers, Len(v.gpu_buffer)) |-> <<i - 1, per>>]
         IN IF buffer_tail > 0
            THEN IF num_buffers >= Len(v.gpu_buffer)
                 THEN [panic |-> "gpu_buffer index", calls |-> full]
                 ELSE [panic |-> "", calls |-> Append(full, <<num_buffers, buffer_tail>>)]
            ELSE [panic |-> "", calls |-> full]

(***************************************************************************)
(* Specification SpecVec: one GpuSyncVec under its operations              *)
(***************************************************************************)
MaxVecLen == 5      \* push calls after the start state
MaxIndex == 5       \* largest index given to index_mut and get_mut

\* device.limits().max_buffer_size: two elements and a remainder per buffer,
\* and two limits above the 256 elements of the first buffer: 257 elements
\* and a remainder, and a power of two.
MaxBufferSizes == { 2 * SizeOfT + 5, 257 * SizeOfT + 5, 8192 }

\* What push appends and what an assignment through index_mut or get_mut
\* stores: two values, so that a stale GPU copy differs from the host's.
PushValues == { 1 }
AssignValues == { 2 }

\* n push calls of the value 1, one after the other.
PushN(v, n) ==
    IF n = 0 THEN v
    ELSE [v EXCEPT !.data = @ \o [i \in 1..n |-> 1],
                   !.dirty_range = [start |-> Min(@.start, Len(v.data)),
                                    end |-> Max(@.end, Len(v.data) + n)]]

\* The vectors a run starts from: a new one, and where a buffer holds more
\* than the 256 elements of the first buffer, one filled by push calls up to
\* one element short of a full buffer.
VecStarts(max_buffer_size) ==
    IF max_buffer_size \div SizeOfT > 256
    THEN { 0, max_buffer_size \div SizeOfT - 1 }
    ELSE { 0 }

\* The indices the callers pass: one in the first block of two elements, one
\* in the second, and the largest.  The lengths they truncate to: empty, the
\* middle of a block, the end of a block.
VecIndices == { 0, 3, MaxIndex }
TruncateLens == { 0, 1, 4 }

VecBefore(v) ==
    [ buffers |-> Len(v.gpu_buffer), size |-> v.gpu_buffer[1].size ]

\* The calls made so far, followed as far as they are
\* push; push; sync; index_mut(index); sync on a new vector: the number of
\* calls that matched (-1 once a call did not) and the index.
ScenarioOff == [stage |-> -1, index |-> -1]
ScenarioStep(scenario, op, arg) ==
    IF scenario.stage \in {0, 1} /\ op = "push" THEN [scenario EXCEPT !.stage = @ + 1]
    ELSE IF scenario.stage = 2 /\ op = "sync" THEN [scenario EXCEPT !.stage = 3]
    ELSE IF scenario.stage = 3 /\ op = "index_mut" THEN [stage |-> 4, index |-> arg]
    ELSE IF scenario.stage = 4 /\ op = "sync" THEN [scenario EXCEPT !.stage = 5]
    ELSE ScenarioOff

\* The indices below len() written by push, index_mut and get_mut since the
\* last sync that returned, after the call op(arg) that leaves the vector as
\* v.  An index truncate has cut off comes back only by a push, which writes
\* it again.
Written(op, arg, v) ==
    IF op = "push" THEN veclog.written \cup { Len(vec.data) }
    ELSE IF op \in {"index_mut", "get_mut"} /\ arg < Len(vec.data)
    THEN veclog.written \cup { arg }
    ELSE IF op = "sync" /\ v.panic = "" THEN {}
    ELSE IF op = "truncate" THEN { i \in veclog.written : i < arg }
    ELSE veclog.written

VecLog(op, arg, uploaded, calls) ==
    [ op |-> op, uploaded |-> uploaded, calls |-> calls,
      arg_in_range |-> op \in {"truncate", "get_mut"} /\ arg < Len(vec.data),
      written |-> Written(op, arg, IF op = "sync" THEN sync(vec) ELSE vec),
      before |-> VecBefore(vec),
      pushes |-> IF op = "push" THEN veclog.pushes + 1 ELSE veclog.pushes,
      plain |-> veclog.plain /\ op \in {"push", "truncate", "sync", "read_buffers"},
      scenario |-> ScenarioStep(veclog.scenario, op, arg) ]

InitVec ==
    /\ \E max_buffer_size \in MaxBufferSizes :
          \E n \in VecStarts(max_buffer_size) :
             /\ vec = PushN(GpuSyncVecNew(max_buffer_size), n)
             /\ veclog = [ op |-> "new", uploaded |-> {}, calls |-> << >>,
                           arg_in_range |-> FALSE, written |-> 0..(n - 1),
                           before |-> VecBefore(GpuSyncVecNew(max_buffer_size)),
                           pushes |-> 0, plain |-> TRUE,
                           scenario |-> IF n = 0 THEN [stage |-> 0, index |-> -1]
                                        ELSE ScenarioOff ]
    /\ RingOff /\ PipeOff /\ TraceStateOff /\ BatchOff /\ UiOff /\ EncOff /\ FreeOff

NonVecVars == <<RingVars, PipeVars, TraceStateVars, BatchVars, UiVars, EncVars, FreeVars>>

VecPush(value) ==
    /\ vec.panic = ""
    /\ veclog.pushes < MaxVecLen
    /\ vec' = push(vec, value)
    /\ veclog' = VecLog("push", value, {}, << >>)
    /\ UNCHANGED NonVecVars

VecIndexMut(index, value) ==
    /\ vec.panic = ""
    /\ vec' = index_mut(vec, index, value)
    /\ veclog' = VecLog("index_mut", index, {}, << >>)
    /\ UNCHANGED NonVecVars

VecGetMut(index, value) ==
    /\ vec.panic = ""
    /\ vec' = get_mut(vec, index, value)
    /\ veclog' = VecLog("get_mut", index, {}, << >>)
    /\ UNCHANGED NonVecVars

VecTruncate(len) ==
    /\ vec.panic = ""
    /\ vec' = truncate(vec, len)
    /\ veclog' = VecLog("truncate", len, {}, << >>)
    /\ UNCHANGED NonVecVars

VecSync ==
    /\ vec.panic = ""
    /\ vec' = sync(vec)
    /\ veclog' = VecLog("sync", 0, Uploaded(vec), << >>)
    /\ UNCHANGED NonVecVars

\* read_buffers, with a callback that notes what it is given.
VecReadBuffers ==
    /\ vec.panic = ""
    /\ vec' = [vec EXCEPT !.panic = read_buffers(vec).panic]
    /\ veclog' = VecLog("read_buffers", 0, {}, read_buffers(vec).calls)
    /\ UNCHANGED NonVecVars

NextVec ==
    \/ \E value \in PushValues : VecPush(value)
    \/ \E index \in VecIndices, value \in AssignValues : VecIndexMut(index, value)
    \/ \E index \in VecIndices, value \in AssignValues : VecGetMut(index, value)
    \/ \E len \in TruncateLens : VecTruncate(len)
    \/ VecSync
    \/ VecReadBuffers

SpecVec == InitVec /\ [][NextVec]_vars

(***************************************************************************)
(* Claims on GpuSyncVec                                                    *)
(***************************************************************************)
\* The GPU copy of element i: in the sole buffer at offset i, or with chained
\* buffers in buffer i div per_buf at offset i mod per_buf; -1 where the
\* buffers have no such place.
C16_GpuCopy(v, i) ==
    LET per == filled_buffer_len(v)
        b == IF Len(v.gpu_buffer) = 1 THEN 0 ELSE i \div per
        o == IF Len(v.gpu_buffer) = 1 THEN i ELSE i % per
    IN IF b < Len(v.gpu_buffer) /\ o < Len(v.gpu_buffer[b + 1].mem)
       THEN v.gpu_buffer[b + 1].mem[o + 1]
       ELSE -1

C16_Mirrored(v) == \A i \in 0..(Len(v.data) - 1) : C16_GpuCopy(v, i) = v.data[i + 1]

\* C16: after sync returns, whatever calls came before and whatever the
\* device's max_buffer_size, the GPU copy of every element i < len() equals
\* the host's data[i].
C16_SyncMirrors == (veclog.op = "sync" /\ vec.panic = "") => C16_Mirrored(vec)

\* The last call was a sync that found a single buffer smaller than
\* single_buffer_size_max while the host data needs more bytes than
\* max_buffer_size.
C17_Case ==
    /\ veclog.op = "sync"
    /\ veclog.before.buffers = 1
    /\ veclog.before.size < single_buffer_size_max(vec)
    /\ Len(vec.data) * SizeOfT > vec.max_buffer_size

\* C17: in that case the buffer list afterwards has exactly
\* ceil(required / single_max_bytes) buffers, each of single_max_bytes, so
\* that its capacity covers every host element, and where the call stopped
\* before clearing it the dirty range is the whole host range.
C17_ChainBuilt ==
    C17_Case =>
       /\ Len(vec.gpu_buffer) = DivCeil(Len(vec.data) * SizeOfT, single_buffer_size_max(vec))
       /\ \A b \in 1..Len(vec.gpu_buffer) : vec.gpu_buffer[b].size = single_buffer_size_max(vec)
       /\ Len(vec.gpu_buffer) * filled_buffer_len(vec) >= Len(vec.data)
       /\ vec.panic # "" => vec.dirty_range = [start |-> 0, end |-> Len(vec.data)]

\* On a new vector, after push; push: sync has returned and uploaded exactly
\* the elements 0 and 1.
C18_FirstSync ==
    veclog.scenario.stage = 3 => (vec.panic = "" /\ veclog.uploaded = {0, 1})

\* C18 as stated: on a new vector push; push; sync uploads exactly the
\* elements 0 and 1, and a following index_mut(5) assignment and sync succeed
\* and upload exactly the element 5.
C18_Example ==
    /\ C18_FirstSync
    /\ (veclog.scenario.stage \in {4, 5} /\ veclog.scenario.index = 5) => vec.panic = ""
    /\ (veclog.scenario.stage = 5 /\ veclog.scenario.index = 5) => veclog.uploaded = {5}

\* C18, amended: on a new vector push; push; sync uploads exactly the
\* elements 0 and 1; a following index_mut(i) assignment with i < len() and
\* sync succeed and upload exactly the element i, while index_mut(i) with
\* i >= len() panics, the vector being as long as before.
C18_ExampleInRange ==
    /\ C18_FirstSync
    /\ veclog.scenario.stage = 4 =>
          /\ Len(vec.data) = 2
          /\ IF veclog.scenario.index < 2 THEN vec.panic = "" ELSE vec.panic = "index_mut"
    /\ veclog.scenario.stage = 5 =>
          (vec.panic = "" /\ veclog.uploaded = {veclog.scenario.index})

\* Witness for C18: the five calls were made, the assignment in range.
C18_Witness ==
    /\ veclog.scenario.stage = 5 /\ veclog.scenario.index < 2
    /\ veclog.uploaded = {veclog.scenario.index}

RECURSIVE C19_Sum(_, _)
C19_Sum(calls, k) == IF k = 0 THEN 0 ELSE calls[k][2] + C19_Sum(calls, k - 1)

\* What read_buffers is to do on v, given the calls it made: no buffer past
\* the end of the list is touched, the buffers come in chain order, the
\* counts sum to len(), each count fits the buffer it comes with, and with
\* chained buffers every call but the last has count per_buf.
C19_Readout(v, calls) ==
    /\ v.panic = ""
    /\ \A k \in 1..Len(calls) : calls[k][1] = k - 1 /\ calls[k][1] < Len(v.gpu_buffer)
    /\ C19_Sum(calls, Len(calls)) = Len(v.data)
    /\ \A k \in 1..Len(calls) :
          calls[k][1] < Len(v.gpu_buffer) => calls[k][2] <= Len(v.gpu_buffer[calls[k][1] + 1].mem)
    /\ Len(v.gpu_buffer) > 1 =>
          \A k \in 1..(Len(calls) - 1) : calls[k][2] = filled_buffer_len(v)

\* C19 as stated: after any sequence of push, truncate and sync calls,
\* read_buffers does the above.
C19_ReadBuffers ==
    (veclog.op = "read_buffers" /\ veclog.plain) => C19_Readout(vec, veclog.calls)

\* C19, amended: read_buffers does the above whenever no element is dirty,
\* that is once sync has returned after the last push, whatever calls came
\* before.
C19_ReadBuffersSynced ==
    (veclog.op = "read_buffers" /\ vec.dirty_range.start >= vec.dirty_range.end)
        => C19_Readout(vec, veclog.calls)

\* Witness for C19: a synced chain is read, full buffers and a partial tail.
C19_Witness ==
    /\ veclog.op = "read_buffers" /\ veclog.plain
    /\ vec.dirty_range.start >= vec.dirty_range.end
    /\ Len(vec.gpu_buffer) > 1
    /\ Len(veclog.calls) >= 2
    /\ veclog.calls[Len(veclog.calls)][2] < filled_buffer_len(vec)

\* The indices of the dirty interval [start, end).
C39_Dirty(v) == v.dirty_range.start .. (v.dirty_range.end - 1)

\* C39: after every call that returns, the dirty interval contains every
\* index below len() that push, index_mut or get_mut wrote since the last
\* sync; truncate(n) leaves start alone, adds no index to the interval and,
\* when it cuts the vector to n elements, sets end to the smaller of end and
\* n; get_mut with an index out of range changes nothing; sync leaves the
\* interval empty, and a sync with no write since the previous one uploads
\* nothing and leaves the buffer list alone.
C39_DirtyInterval ==
    [][ vec'.panic = "" =>
          /\ veclog'.written \subseteq 0..(Len(vec'.data) - 1)
          /\ veclog'.written \subseteq C39_Dirty(vec')
          /\ veclog'.op = "truncate" =>
                /\ vec'.dirty_range.start = vec.dirty_range.start
                /\ C39_Dirty(vec') \subseteq C39_Dirty(vec)
                /\ vec'.dirty_range.end <= vec.dirty_range.end
                /\ veclog'.arg_in_range =>
                      vec'.dirty_range.end = Min(vec.dirty_range.end, Len(vec'.data))
                /\ ~veclog'.arg_in_range => vec' = vec
          /\ (veclog'.op = "get_mut" /\ ~veclog'.arg_in_range) => vec' = vec
          /\ veclog'.op = "sync" =>
                /\ C39_Dirty(vec') = {}
                /\ veclog.written = {} =>
                      /\ veclog'.uploaded = {}
                      /\ vec'.gpu_buffer = vec.gpu_buffer ]_vars

\* Witness for C39: a truncate has cut the vector, and the dirty interval
\* with it, down to a length that leaves written indices below it.
C39_Witness ==
    /\ veclog.op = "truncate" /\ veclog.arg_in_range /\ vec.panic = ""
    /\ veclog.written # {}
    /\ vec.dirty_range.end = Len(vec.data)
    /\ vec.dirty_range.start < vec.dirty_range.end

\* C40: no buffer the vector holds is larger than max_buffer_size, and no
\* call has asked the device for a buffer above that limit, whatever the
\* limit is, a power of two or not.
C40_BuffersWithinLimit ==
    /\ vec.panic # "create_buffer"
    /\ \A b \in 1..Len(vec.gpu_buffer) : vec.gpu_buffer[b].size <= vec.max_buffer_size

(***************************************************************************)
(* Specification SpecUi: the UI thread's about_to_wait step                *)
(*                                                                         *)
(* ui is [trace_queue, window, applied, syncs, redraws, panicked, step,    *)
(* before]: the renderer's queue of SlowTraces (the result queue of main), *)
(* whether App.window is Some, the SlowTraces applied to the TraceState    *)
(* and the number of TraceState::sync calls made, the number of            *)
(* request_redraw calls, whether the UI thread panicked, and as history    *)
(* the last step and the queue it found.                                   *)
(***************************************************************************)
MaxUiTraces == 3    \* SlowTraces the workers push

\* The batches whose SlowTraces the workers push.
UiBatches ==
    { << Event("Call", U64(1), 1) >>,
      << Event("Call", U64(1), 1), Event("Return", U64(2), 1) >>,
      << Event("Call", U64(1), 1), Event("Call", U64(2), 2) >> }

\* Renderer::sync: the first SlowTrace popped reaches todo!(), which panics.
renderer_sync(trace_queue) ==
    IF trace_queue = << >>
    THEN [updated |-> FALSE, trace_queue |-> trace_queue, panicked |-> FALSE]
    ELSE [updated |-> TRUE, trace_queue |-> Tail(trace_queue), panicked |-> TRUE]

\* App::about_to_wait.
about_to_wait(u) ==
    LET r == renderer_sync(u.trace_queue)
    IN [u EXCEPT !.trace_queue = r.trace_queue,
                 !.panicked = r.panicked,
                 !.redraws = IF ~r.panicked /\ r.updated /\ u.window THEN @ + 1 ELSE @]

InitUi ==
    /\ ui = [ trace_queue |-> << >>, window |-> FALSE, applied |-> << >>, syncs |-> 0,
              redraws |-> 0, panicked |-> FALSE, step |-> "new", before |-> << >> ]
    /\ RingOff /\ PipeOff /\ TraceStateOff /\ BatchOff /\ VecOff /\ EncOff /\ FreeOff

NonUiVars == <<RingVars, PipeVars, TraceStateVars, BatchVars, VecVars, EncVars, FreeVars>>

\* A worker task pushes its SlowTrace (trace_thread, line 188).
UiProduce(events) ==
    /\ ~ui.panicked
    /\ Len(ui.trace_queue) < MaxUiTraces
    /\ ui' = [ui EXCEPT !.trace_queue = Append(@, SlowTraceTrace(U64(0), FastTraceNew, events)),
                        !.step = "push", !.before = ui.trace_queue]
    /\ UNCHANGED NonUiVars

\* App::resumed: the window is created.
UiResumed ==
    /\ ~ui.panicked
    /\ ~ui.window
    /\ ui' = [ui EXCEPT !.window = TRUE, !.step = "resumed", !.before = ui.trace_queue]
    /\ UNCHANGED NonUiVars

UiAboutToWait ==
    /\ ~ui.panicked
    /\ ui' = [about_to_wait(ui) EXCEPT !.step = "about_to_wait", !.before = ui.trace_queue]
    /\ UNCHANGED NonUiVars

NextUi ==
    \/ \E events \in UiBatches : UiProduce(events)
    \/ UiResumed
    \/ UiAboutToWait

SpecUi == InitUi /\ [][NextUi]_vars

\* C20: an about_to_wait step removes every SlowTrace it finds in the queue,
\* applies each to the TraceState in dequeue order, calls TraceState::sync and
\* requests a redraw if and only if it removed at least one; with an empty
\* queue it changes nothing and requests no redraw.
C20_AboutToWait ==
    ui.step = "about_to_wait" =>
       /\ ~ui.panicked
       /\ ui.trace_queue = << >>
       /\ ui.applied = ui.before
       /\ ui.before # << >> => ui.syncs >= 1
       /\ ui.window => (ui.redraws >= 1 <=> ui.before # << >>)

(***************************************************************************)
(* encode_time on its own (src/src/trace_state.rs, lines 22-27)            *)
(*                                                                         *)
(* enclog holds the last two calls of encode_time, the latest last: the    *)
(* time given and the pair returned.                                       *)
(***************************************************************************)

\* The times given to encode_time: limbs at the edges of the masks and of
\* the shifts (bit 31, bit 60, bit 63), u64::MAX among them.
EncTimes ==
    { <<a, b, c, d>> : a \in {0, 1, 4095, 4096, 32767, 32768, 65535},
                       b \in {0, 1, 65535},
                       c \in {0, 32767, 32768, 65535},
                       d \in {0, 65535} }

InitEnc ==
    /\ enclog = << >>
    /\ RingOff /\ PipeOff /\ TraceStateOff /\ BatchOff /\ VecOff /\ UiOff /\ FreeOff

\* One call of encode_time.
EncodeTime(time) ==
    /\ enclog' = LET r == [time |-> time, encoded |-> encode_time(time)]
              IN  IF Len(enclog) < 2 THEN Append(enclog, r) ELSE <<enclog[2], r>>
    /\ UNCHANGED <<RingVars, PipeVars, TraceStateVars, BatchVars, VecVars, UiVars, FreeVars>>

NextEnc == \E time \in EncTimes : EncodeTime(time)

SpecEnc == InitEnc /\ [][NextEnc]_vars

\* t < 2^63 and t < 2^60.
C25_Below63(t) == t[1] < 32768
C25_Below60(t) == t[1] < 4096

\* C25: for every time below 2^63, encode_time returns [lo, hi] with
\* lo < 2^31 and (hi << 31) | lo equal to the time; two distinct times below
\* 2^63 never get the same pair; no time below 2^60 gets the pair of the
\* open sentinel u64::MAX.
C25_EncodeTimeExact ==
    \A i \in 1..Len(enclog) :
       /\ C25_Below63(enclog[i].time) =>
             /\ enclog[i].encoded[1][1] < 32768
             /\ decode_time(enclog[i].encoded) = enclog[i].time
             /\ \A j \in 1..Len(enclog) :
                   (C25_Below63(enclog[j].time) /\ enclog[j].time # enclog[i].time)
                   => enclog[j].encoded # enclog[i].encoded
       /\ C25_Below60(enclog[i].time) => enclog[i].encoded # encode_time(U64_MAX)

\* C25 witness: two distinct times were encoded, one just below 2^60 with
\* bit 31 set, the other between 2^60 and 2^63.
C25_Witness ==
    /\ Len(enclog) = 2
    /\ enclog[1].time = <<4095, 65535, 32768, 65535>>
    /\ enclog[2].time = <<32767, 65535, 65535, 65535>>
    /\ enclog[2].encoded # enclog[1].encoded

(***************************************************************************)
(* FreeList (src/src/renderer/vertex_arena.rs, lines 33-80)                *)
(*                                                                         *)
(* A free list is [by_start, by_size]: by_start the BTreeMap from a        *)
(* block's start to its end, a function; by_size the BTreeSet of           *)
(* <<size, start>>.  A range start..end is <<start, end>>.                 *)
(***************************************************************************)

\* FreeList::new.
FreeListNew == [ by_start |-> << >>, by_size |-> {} ]

\* BTreeMap::remove and BTreeMap::insert (an insert replaces the value of a
\* key that is there).
MapRemove(map, key) == [ k \in DOMAIN map \ {key} |-> map[k] ]
MapInsert(map, key, value) ==
    [ k \in DOMAIN map \cup {key} |-> IF k = key THEN value ELSE map[k] ]

\* The order of the tuples (size, start) of by_size.
TupleLe(p, q) == p[1] < q[1] \/ (p[1] = q[1] /\ p[2] <= q[2])

\* by_size.range((len, 0)..).next(): the least tuple from (len, 0) on.
FirstFit(by_size, len) ==
    LET from == { p \in by_size : TupleLe(<<len, 0>>, p) }
    IN  IF from = {} THEN << >>
        ELSE << CHOOSE p \in from : \A q \in from : TupleLe(p, q) >>

\* FreeList::alloc: the range, none as << >>, and the list afterwards.
alloc(fl, len) ==
    LET found == FirstFit(fl.by_size, len) IN
    IF found = << >> THEN [ range |-> << >>, fl |-> fl ]
    ELSE LET size == found[1][1]
             start == found[1][2]
             by_size1 == fl.by_size \ { <<size, start>> }
             by_start1 == MapRemove(fl.by_start, start)
             new_start == start + len
             new_size == size - len
         IN  [ range |-> << <<start, start + len>> >>,
               fl |-> IF size > len
                      THEN [ by_start |-> MapInsert(by_start1, new_start,
                                                    new_start + new_size),
                             by_size |-> by_size1 \cup { <<new_size, new_start>> } ]
                      ELSE [ by_start |-> by_start1, by_size |-> by_size1 ] ]

\* FreeList::dealloc of start..end, start <= end.
dealloc(fl, range) ==
    LET after == { k \in DOMAIN fl.by_start : k >= range[2] }
        next_start == CHOOSE k \in after : \A j \in after : k <= j
        merge_next == after # {} /\ next_start = range[2]
        fl1 == IF merge_next
               THEN [ by_start |-> MapRemove(fl.by_start, next_start),
                      by_size |-> fl.by_size \
                                    { <<fl.by_start[next_start] - next_start, next_start>> } ]
               ELSE fl
        end == IF merge_next THEN fl.by_start[next_start] ELSE range[2]
        before == { k \in DOMAIN fl1.by_start : k < range[1] }
        prev_start == CHOOSE k \in before : \A j \in before : k >= j
        merge_prev == before # {} /\ fl1.by_start[prev_start] = range[1]
        fl2 == IF merge_prev
               THEN [ by_start |-> MapRemove(fl1.by_start, prev_start),
                      by_size |-> fl1.by_size \
                                    { <<fl1.by_start[prev_start] - prev_start, prev_start>> } ]
               ELSE fl1
        start == IF merge_prev THEN prev_start ELSE range[1]
    IN  [ by_start |-> MapInsert(fl2.by_start, start, end),
          by_size |-> fl2.by_size \cup { <<end - start, start>> } ]

(***************************************************************************)
(* Specification SpecFree: a FreeList under alloc and dealloc              *)
(***************************************************************************)

\* Bounds: the indices of the arena are 0..MaxFreeIndex - 1; the lengths
\* asked of alloc are 0..MaxAllocLen; the calls made on the list.
MaxFreeIndex == 5
MaxAllocLen == 3
MaxFreeCalls == 5

\* The blocks by_start describes and the blocks by_size describes, as ranges.
BlocksByStart(fl) == { <<k, fl.by_start[k]>> : k \in DOMAIN fl.by_start }
BlocksBySize(fl) == { <<p[2], p[2] + p[1]>> : p \in fl.by_size }

\* The indices of a range, and whether a range shares no index with any
\* free block.
Indices(range) == range[1]..(range[2] - 1)
DisjointFromFree(fl, range) ==
    \A b \in BlocksByStart(fl) \cup BlocksBySize(fl) : Indices(b) \cap Indices(range) = {}

\* The ranges of the arena, the empty ones among them (VertexArena::alloc(0)
\* allocates one and VertexArena::dealloc hands it to the free list).
FreeRanges == { <<s, e>> : s \in 0..MaxFreeIndex, e \in 0..MaxFreeIndex }

InitFree ==
    /\ free_list = FreeListNew
    /\ fllog = [ op |-> "new", len |-> 0, range |-> << >>, before |-> FreeListNew,
                 calls |-> 0 ]
    /\ RingOff /\ PipeOff /\ TraceStateOff /\ BatchOff /\ VecOff /\ UiOff /\ EncOff

NonFreeVars == <<RingVars, PipeVars, TraceStateVars, BatchVars, VecVars, UiVars, EncVars>>

\* free_list.alloc(len).
FreeAlloc(len) ==
    /\ fllog.calls < MaxFreeCalls
    /\ LET r == alloc(free_list, len)
       IN  /\ free_list' = r.fl
           /\ fllog' = [ op |-> "alloc", len |-> len, range |-> r.range,
                         before |-> free_list, calls |-> fllog.calls + 1 ]
    /\ UNCHANGED NonFreeVars

\* free_list.dealloc(range), of a range that holds no free index.
FreeDealloc(range) ==
    /\ fllog.calls < MaxFreeCalls
    /\ range[1] <= range[2]
    /\ DisjointFromFree(free_list, range)
    /\ free_list' = dealloc(free_list, range)
    /\ fllog' = [ op |-> "dealloc", len |-> 0, range |-> << range >>,
                  before |-> free_list, calls |-> fllog.calls + 1 ]
    /\ UNCHANGED NonFreeVars

NextFree ==
    \/ \E len \in 0..MaxAllocLen : FreeAlloc(len)
    \/ \E range \in FreeRanges : FreeDealloc(range)

SpecFree == InitFree /\ [][NextFree]_vars

\* The free list is well formed: no two blocks of by_start touch or overlap,
\* and by_size holds the same blocks as by_start.
C26_NoTouch(fl) ==
    \A a, b \in DOMAIN fl.by_start : a < b => fl.by_start[a] < b
C26_SameBlocks(fl) == BlocksByStart(fl) = BlocksBySize(fl)

\* After dealloc of s..e the list holds one block that runs from the start of
\* the free block that ended at s (from s when there was none) to the end of
\* the free block that started at e (to e when there was none), and those
\* two blocks are no longer blocks of their own.
C26_Merged ==
    fllog.op = "dealloc"
    => LET s == fllog.range[1][1]
           e == fllog.range[1][2]
           B == BlocksByStart(fllog.before)
           EndsAt == { b \in B : b[2] = s }
           StartsAt == { b \in B : b[1] = e }
       IN  \E merged \in BlocksByStart(free_list) :
              /\ IF EndsAt = {} THEN merged[1] = s
                 ELSE \E b \in EndsAt : merged[1] = b[1]
              /\ IF StartsAt = {} THEN merged[2] = e
                 ELSE \E b \in StartsAt : merged[2] = b[2]
              /\ \A b \in EndsAt \cup StartsAt :
                    b # merged => b \notin BlocksByStart(free_list)

\* C26: dealloc merges the range with the free block that ends at its start
\* and with the one that starts at its end; after any sequence of alloc and
\* dealloc calls on ranges disjoint from the free blocks, no two free blocks
\* touch or overlap and by_start and by_size describe the same blocks.
C26_FreeListWellFormed ==
    /\ C26_Merged
    /\ C26_NoTouch(free_list)
    /\ C26_SameBlocks(free_list)

\* What alloc(len) is to do on the set of blocks V(before), with the result
\* range and the set V(after): take the least block of size >= len in the
\* order (size, start), return its first len indices, keep the rest as one
\* block; with no such block return nothing.
C27_FirstFit(before, after, len, range) ==
    LET fits == { b \in before : b[2] - b[1] >= len }
        chosen == CHOOSE b \in fits :
                     \A c \in fits : TupleLe(<<b[2] - b[1], b[1]>>, <<c[2] - c[1], c[1]>>)
    IN  IF fits = {} THEN range = << >> /\ after = before
        ELSE /\ range = << <<chosen[1], chosen[1] + len>> >>
             /\ after = (before \ {chosen}) \cup
                        (IF chosen[2] - chosen[1] > len
                         THEN { <<chosen[1] + len, chosen[2]>> } ELSE {})

\* C27: alloc(len) takes the smallest free block of size >= len, the lowest
\* start among equal sizes, returns its first len indices and keeps the
\* remaining indices as one free block; when no block is large enough it
\* returns nothing and the free list, by_start and by_size, is unchanged.
C27_AllocFirstFit ==
    fllog.op = "alloc"
    => /\ C27_FirstFit(BlocksByStart(fllog.before), BlocksByStart(free_list),
                       fllog.len, fllog.range)
       /\ C27_FirstFit(BlocksBySize(fllog.before), BlocksBySize(free_list),
                       fllog.len, fllog.range)
       /\ fllog.range = << >> => free_list = fllog.before

====
